---- MODULE Spec2Model ----
(***************************************************************************)
(* A model of the access-control core of the repository:                   *)
(*   security/access_rule_manager.py   AccessRuleManager  (rule store)     *)
(*   security/permission_validator.py  PermissionValidator                 *)
(*   security/role_permissions.py      RoleManager        (role graph)     *)
(*   security/audit_logger.py          AuditLogger        (audit log)      *)
(* The four classes hold disjoint state and never call one another, so     *)
(* each has its own specification over the shared variable tuple.          *)
(*                                                                         *)
(* Python values are encoded as follows.                                   *)
(*   - an optional value (a dict key that may be missing) is a set with at *)
(*     most one element: {} is "key absent", {v} is "key present, value v";*)
(*   - an insertion-ordered dict is a sequence of its values;              *)
(*   - a dict whose keys come and go is a function whose DOMAIN is the set *)
(*     of keys present;                                                    *)
(*   - a time_restriction string "s-e" is the tuple of integers that       *)
(*     split("-") and int() produce from it;                               *)
(*   - uuid4() ids are successive integers (never reused).                 *)
(*                                                                         *)
(* What the interpreter raises at run time is modelled as it happens: the  *)
(* KeyError in delete_role, the TypeError of the AuditLogEntry constructor *)
(* call in log_event, the RecursionError of get_effective_permissions.     *)
(* Two defects stop the files from loading at all and are read through:    *)
(* line 376 of audit_logger.py is taken as the body of the if on line 375, *)
(* and the AccessRule the rule manager imports from the missing module     *)
(* security.access_rule is the class defined in access_rule_manager.py.    *)
(***************************************************************************)
EXTENDS Integers, Sequences, FiniteSets, TLC

VARIABLES
    component,          \* the object a behaviour exercises: its calls are the only ones made
    rules,              \* AccessRuleManager.rules (ordered dict, as a sequence of rules)
    rules_by_type,      \* AccessRuleManager.rules_by_type : type -> list of rule ids
    rules_by_resource,  \* AccessRuleManager.rules_by_resource : resource -> list of rule ids
    next_rule_id,       \* the next uuid4() of create_rule
    access_rules,       \* PermissionValidator.access_rules : resource -> ordered dict of rules
    v_audit_log,        \* PermissionValidator.audit_log
    v_role_permissions, \* PermissionValidator.role_permissions : role name -> (resource -> level)
    roles,              \* RoleManager.roles : role id -> UserRole
    role_names,         \* RoleManager.role_names : name -> role id
    role_permissions,   \* RoleManager.role_permissions : role id -> (resource -> level)
    next_role_id,       \* the next uuid4() of create_role
    audit_log,          \* AuditLogger.audit_log
    max_entries,        \* AuditLogger.max_entries
    retention_period,   \* AuditLogger.retention_period
    log_level,          \* AuditLogger.log_level
    handlers,           \* AuditLogger.handlers
    clock,              \* datetime.now(), in days
    requested,          \* the log_event calls at or above the log level since the log was last empty
    notified,           \* the handler calls the last log_event made, in order
    optimizer_rules,    \* PriorityOptimizer.rules (ordered dict, as a sequence of rules)
    active_plans,       \* TaskPlanner.active_plans : plan id -> ExecutionPlan
    next_uuid,          \* the next uuid4() of the planner
    returned_plan,      \* the plan the last planner call returned, if it returned one
    ret                 \* the last call: its name and what it returned or raised

vars == <<component, rules, rules_by_type, rules_by_resource, next_rule_id,
          access_rules, v_audit_log, v_role_permissions, roles, role_names,
          role_permissions,
          next_role_id, audit_log, max_entries, retention_period, log_level,
          handlers, clock, requested, notified, optimizer_rules, active_plans,
          next_uuid, returned_plan, ret>>

ruleVars == <<rules, rules_by_type, rules_by_resource, next_rule_id>>
validatorVars == <<access_rules, v_audit_log, v_role_permissions>>
roleVars == <<roles, role_names, role_permissions, next_role_id>>
auditVars == <<audit_log, max_entries, retention_period, log_level, handlers,
               clock, requested, notified>>
plannerVars == <<optimizer_rules, active_plans, next_uuid, returned_plan>>

-----------------------------------------------------------------------------
(* Bounds of the model *)

MaxRules == 2          \* rules create_rule may create in one behaviour
MaxValidatorRules == 2 \* rules add_access_rule may hold at once
MaxAudit == 2          \* validator audit records in one behaviour

-----------------------------------------------------------------------------
(* Generic helpers for the encodings above *)

Some(v) == {v}
None == {}
Get(o) == CHOOSE v \in o : TRUE

EmptyDict == [k \in {} |-> <<>>]
DictPut(d, k, v) == [x \in DOMAIN d \cup {k} |-> IF x = k THEN v ELSE d[x]]
DictDel(d, k) == [x \in DOMAIN d \ {k} |-> d[x]]

Range(s) == {s[i] : i \in DOMAIN s}

\* what a call returned or raised, as ret records it
Bool(b) == IF b THEN "True" ELSE "False"

-----------------------------------------------------------------------------
(* PermissionLevel, RulePriority, RuleConditionType *)

NONE == 0
READ == 1
WRITE == 2
EXECUTE == 3
ADMIN == 4
PermissionLevel == {NONE, READ, WRITE, EXECUTE, ADMIN}

HIGH == 1
MEDIUM == 2
LOW == 3
RulePriority == {HIGH, MEDIUM, LOW}

RuleConditionType == {"time_based", "ip_based", "role_based", "contextual", "custom"}

-----------------------------------------------------------------------------
(* Inputs the actions draw from *)

Resources == {"shell", "file"}
Users == {"u1", "u2"}
Ips == {"ip1", "ip2"}

NoConditions ==
    [time_restriction |-> None, ip_whitelist |-> None, ip_blacklist |-> None,
     required_roles |-> None, context_conditions |-> None]

\* the conditions dicts of the rule-table specification
RulesConditionChoices ==
    { NoConditions,
      [NoConditions EXCEPT !.time_restriction = Some(<<9, 17>>)],
      [NoConditions EXCEPT !.required_roles = Some({"admin"})] }

RulePermissions == {READ, ADMIN}
\* a value PermissionLevel(...) rejects with ValueError
BadPermission == ADMIN + 1

-----------------------------------------------------------------------------
(* AccessRuleManager (security/access_rule_manager.py) *)

\* AccessRule.__init__
AccessRule(rule_id, description, resource_type, required_permission, conditions) ==
    [rule_id |-> rule_id, description |-> description,
     resource_type |-> resource_type,
     required_permission |-> required_permission, conditions |-> conditions]

RuleIds(rs) == {rs[i].rule_id : i \in DOMAIN rs}
RuleOf(rs, rule_id) == rs[CHOOSE i \in DOMAIN rs : rs[i].rule_id = rule_id]
WithoutId(ids, rule_id) == SelectSeq(ids, LAMBDA r : r # rule_id)

\* a classification that looks at required_roles before the ip lists
RolesBeforeIp(rule) ==
    IF rule.conditions.time_restriction # None THEN "time_based"
    ELSE IF rule.conditions.required_roles # None THEN "role_based"
    ELSE IF rule.conditions.ip_whitelist # None \/ rule.conditions.ip_blacklist # None
         THEN "ip_based"
    ELSE IF rule.conditions.context_conditions # None THEN "contextual"
    ELSE "custom"

\* _determine_rule_type: the first condition category present wins
_determine_rule_type(rule) ==
    IF rule.conditions.time_restriction # None THEN "time_based"
    ELSE IF rule.conditions.ip_whitelist # None \/ rule.conditions.ip_blacklist # None
         THEN "ip_based"
    ELSE IF rule.conditions.required_roles # None THEN "role_based"
    ELSE IF rule.conditions.context_conditions # None THEN "contextual"
    ELSE "custom"

\* _get_rule_priority
\* a manager that gives every rule the same priority, so that rules are
\* examined in insertion order
FlatPriority(rule) == MEDIUM

_get_rule_priority(rule) ==
    IF _determine_rule_type(rule) = "time_based" THEN HIGH
    ELSE IF _determine_rule_type(rule) = "ip_based" THEN HIGH
    ELSE IF _determine_rule_type(rule) = "role_based" THEN MEDIUM
    ELSE LOW

\* list.append on a bucket that is created on first use
BucketAppend(index, key, rule_id) ==
    DictPut(index, key, (IF key \in DOMAIN index THEN index[key] ELSE <<>>) \o <<rule_id>>)

\* the "remove from ... category" blocks: filter the bucket, drop it when empty
BucketRemove(index, key, rule_id) ==
    IF key \in DOMAIN index
    THEN IF WithoutId(index[key], rule_id) = <<>>
         THEN DictDel(index, key)
         ELSE DictPut(index, key, WithoutId(index[key], rule_id))
    ELSE index

\* self.rules[rule.rule_id] = rule on an insertion-ordered dict
RulesPut(rs, rule) ==
    IF rule.rule_id \in RuleIds(rs)
    THEN [i \in DOMAIN rs |-> IF rs[i].rule_id = rule.rule_id THEN rule ELSE rs[i]]
    ELSE Append(rs, rule)

\* add_rule
add_rule(rule) ==
    /\ rules' = RulesPut(rules, rule)
    /\ rules_by_type' = BucketAppend(rules_by_type, _determine_rule_type(rule), rule.rule_id)
    /\ rules_by_resource' = BucketAppend(rules_by_resource, rule.resource_type, rule.rule_id)

\* create_rule: the action and priority arguments are accepted and dropped
create_rule(resource_type, required_permission, description, action, conditions, priority) ==
    /\ component = "manager"
    /\ next_rule_id <= MaxRules
    /\ add_rule(AccessRule(next_rule_id, <<description, "(auto-created)">>,
                           resource_type, required_permission, conditions))
    /\ next_rule_id' = next_rule_id + 1
    /\ ret' = [op |-> "create_rule", value |-> "id"]
    /\ UNCHANGED <<plannerVars, component, validatorVars, roleVars, auditVars>>

\* get_rules(resource_type): the rules of the main dict with that resource type
get_rules(rs, resource_type) ==
    SelectSeq(rs, LAMBDA r : r.resource_type = resource_type)

\* lines 202-203 of get_rules: for each rule of result in turn, the rule is
\* appended once for every id filed under rule_type in rules_by_type
RECURSIVE ExtendPerFiledId(_, _)
ExtendPerFiledId(result, filed) ==
    IF result = <<>> THEN <<>>
    ELSE [i \in 1 .. filed |-> Head(result)] \o ExtendPerFiledId(Tail(result), filed)

\* get_rules(resource_type, rule_type), each filter given or not
get_rules_filtered(rs, by_type, resource_type, rule_type) ==
    LET result == IF resource_type = None THEN rs
                  ELSE SelectSeq(rs, LAMBDA r : r.resource_type = Get(resource_type))
    IN  IF rule_type = None THEN result
        ELSE IF Get(rule_type) = "custom"
             THEN SelectSeq(result, LAMBDA r : _determine_rule_type(r) = "custom")
        ELSE ExtendPerFiledId(result,
                              IF Get(rule_type) \in DOMAIN by_type
                              THEN Len(by_type[Get(rule_type)]) ELSE 0)

\* a call of get_rules
GetRules(resource_type, rule_type) ==
    /\ component = "manager"
    /\ ret' = [op |-> "get_rules",
               value |-> ToString(Len(get_rules_filtered(rules, rules_by_type,
                                                         resource_type, rule_type)))]
    /\ UNCHANGED <<plannerVars, component, ruleVars, validatorVars, roleVars, auditVars>>

\* sorted(applicable_rules, key=priority.value): Python's sort is stable
sorted_by_priority(rs) ==
    SelectSeq(rs, LAMBDA r : _get_rule_priority(r) = HIGH)
    \o SelectSeq(rs, LAMBDA r : _get_rule_priority(r) = MEDIUM)
    \o SelectSeq(rs, LAMBDA r : _get_rule_priority(r) = LOW)

\* SecurityContext.to_dict, looked up at one key (string-valued keys)
CtxDictKeys == {"user_id", "session_id", "ip_address", "timestamp"}
CtxDictGet(context, key) ==
    CASE key = "user_id" -> context.user_id
      [] key = "session_id" -> context.session_id
      [] key = "ip_address" -> context.ip_address
      [] OTHER -> context.timestamp

\* a condition check whose time window includes its end hour
ClosedWindow(rule, context, hour) ==
    LET c == rule.conditions
        time_ok == \/ c.time_restriction = None
                   \/ Len(Get(c.time_restriction)) # 2
                   \/ (Get(c.time_restriction)[1] <= hour /\ hour <= Get(c.time_restriction)[2])
        white_ok == \/ c.ip_whitelist = None
                    \/ context.ip_address \in Get(c.ip_whitelist)
        roles_ok == \/ c.required_roles = None
                    \/ \E i \in DOMAIN context.roles : context.roles[i] \in Get(c.required_roles)
        ctx_ok == \/ c.context_conditions = None
                  \/ \A kv \in Get(c.context_conditions) :
                        kv[1] \in CtxDictKeys /\ CtxDictGet(context, kv[1]) = kv[2]
    IN  IF c = NoConditions THEN TRUE
        ELSE time_ok /\ white_ok /\ roles_ok /\ ctx_ok

\* AccessRuleManager._check_conditions; hour is datetime.now().hour
_check_conditions(rule, context, hour) ==
    LET c == rule.conditions
        time_ok == \/ c.time_restriction = None
                   \/ Len(Get(c.time_restriction)) # 2
                   \/ (Get(c.time_restriction)[1] <= hour /\ hour < Get(c.time_restriction)[2])
        white_ok == \/ c.ip_whitelist = None
                    \/ context.ip_address \in Get(c.ip_whitelist)
        roles_ok == \/ c.required_roles = None
                    \/ \E i \in DOMAIN context.roles : context.roles[i] \in Get(c.required_roles)
        ctx_ok == \/ c.context_conditions = None
                  \/ \A kv \in Get(c.context_conditions) :
                        kv[1] \in CtxDictKeys /\ CtxDictGet(context, kv[1]) = kv[2]
    IN  IF c = NoConditions THEN TRUE
        ELSE time_ok /\ white_ok /\ roles_ok /\ ctx_ok

\* _check_ip_restrictions: a helper no method calls
_check_ip_restrictions(rule, context) ==
    IF rule.conditions.ip_whitelist # None
    THEN context.ip_address \in Get(rule.conditions.ip_whitelist)
    ELSE IF rule.conditions.ip_blacklist # None
    THEN context.ip_address \notin Get(rule.conditions.ip_blacklist)
    ELSE TRUE

\* the loop of validate_access over the sorted rules from position i on:
\* the rules examined, in order, and the verdict
RECURSIVE ApplyRules(_, _, _, _, _)
ApplyRules(sorted_rules, i, context, required_permission, hour) ==
    IF i > Len(sorted_rules) THEN [value |-> FALSE, examined |-> <<>>]
    ELSE IF /\ _check_conditions(sorted_rules[i], context, hour)
            /\ sorted_rules[i].required_permission <= required_permission
         THEN [value |-> TRUE, examined |-> <<sorted_rules[i].rule_id>>]
         ELSE LET rest == ApplyRules(sorted_rules, i + 1, context, required_permission, hour)
              IN  [value |-> rest.value,
                   examined |-> <<sorted_rules[i].rule_id>> \o rest.examined]

\* a decision that grants only at the very level a matching rule names
ExactLevelOnly(rs, context, resource_type, required_permission, hour) ==
    [value |-> \E r \in Range(get_rules(rs, resource_type)) :
                  /\ _check_conditions(r, context, hour)
                  /\ r.required_permission = required_permission,
     examined |-> <<>>]

\* validate_access
validate_access(rs, context, resource_type, required_permission, hour) ==
    ApplyRules(sorted_by_priority(get_rules(rs, resource_type)), 1,
               context, required_permission, hour)

ValidateAccess(context, resource_type, required_permission, hour) ==
    /\ component = "manager"
    /\ ret' = [op |-> "validate_access",
               value |-> Bool(validate_access(rules, context, resource_type,
                                              required_permission, hour).value)]
    /\ UNCHANGED <<plannerVars, component, ruleVars, validatorVars, roleVars, auditVars>>

\* The updates dict of update_rule: each key present or not
UpdateChoices ==
    [description : {None, Some(<<"d1">>)},
     resource_type : {None} \cup {Some(r) : r \in Resources},
     required_permission : {None, Some(ADMIN), Some(BadPermission)},
     conditions : {None} \cup {Some(c) : c \in RulesConditionChoices}]

\* update_rule, lines 230-231: description
UpdateDescription(rule, updates) ==
    IF updates.description # None
    THEN [rule EXCEPT !.description = Get(updates.description)]
    ELSE rule

\* update_rule, lines 232-248: resource_type, moving the rule between buckets
UpdateResourceType(rule, updates) ==
    IF updates.resource_type # None
    THEN [rule EXCEPT !.resource_type = Get(updates.resource_type)]
    ELSE rule

UpdateResourceIndex(index, rule, updates) ==
    IF updates.resource_type # None
    THEN BucketAppend(BucketRemove(index, rule.resource_type, rule.rule_id),
                      Get(updates.resource_type), rule.rule_id)
    ELSE index

\* update_rule, lines 250-254: PermissionLevel(value) raises ValueError
PermissionRejected(updates) ==
    /\ updates.required_permission # None
    /\ Get(updates.required_permission) \notin PermissionLevel

UpdatePermission(rule, updates) ==
    IF updates.required_permission # None
    THEN [rule EXCEPT !.required_permission = Get(updates.required_permission)]
    ELSE rule

\* update_rule, lines 256-257: conditions
UpdateConditions(rule, updates) ==
    IF updates.conditions # None
    THEN [rule EXCEPT !.conditions = Get(updates.conditions)]
    ELSE rule

\* update_rule, lines 259-275: old_type and new_type are both computed from the
\* rule as it is after the updates were applied
UpdateTypeIndex(index, before, after) ==
    LET old_type == _determine_rule_type(after)
        new_type == _determine_rule_type(after)
    IN  IF old_type # new_type
        THEN BucketAppend(BucketRemove(index, old_type, after.rule_id),
                          new_type, after.rule_id)
        ELSE index

\* update_rule
update_rule(rule_id, updates) ==
    /\ component = "manager"
    /\ IF rule_id \notin RuleIds(rules)
       THEN /\ ret' = [op |-> "update_rule", value |-> "False"]
            /\ UNCHANGED ruleVars
       ELSE LET before == RuleOf(rules, rule_id)
                step2 == UpdateResourceType(UpdateDescription(before, updates), updates)
                after == UpdateConditions(UpdatePermission(step2, updates), updates)
            IN  /\ rules_by_resource' = UpdateResourceIndex(rules_by_resource, before, updates)
                /\ IF PermissionRejected(updates)
                   THEN /\ rules' = RulesPut(rules, step2)
                        /\ rules_by_type' = rules_by_type
                        /\ ret' = [op |-> "update_rule", value |-> "False"]
                   ELSE /\ rules' = RulesPut(rules, after)
                        /\ rules_by_type' = UpdateTypeIndex(rules_by_type, before, after)
                        /\ ret' = [op |-> "update_rule", value |-> "True"]
                /\ UNCHANGED next_rule_id
    /\ UNCHANGED <<plannerVars, component, validatorVars, roleVars, auditVars>>

\* delete_rule
delete_rule(rule_id) ==
    /\ component = "manager"
    /\ IF rule_id \notin RuleIds(rules)
       THEN /\ ret' = [op |-> "delete_rule", value |-> "False"]
            /\ UNCHANGED ruleVars
       ELSE LET rule == RuleOf(rules, rule_id)
                old_type == _determine_rule_type(rule)
            IN  /\ rules' = SelectSeq(rules, LAMBDA r : r.rule_id # rule_id)
                /\ rules_by_type' = BucketRemove(rules_by_type, old_type, rule_id)
                /\ rules_by_resource' =
                       BucketRemove(rules_by_resource, rule.resource_type, rule_id)
                /\ ret' = [op |-> "delete_rule", value |-> "True"]
                /\ UNCHANGED next_rule_id
    /\ UNCHANGED <<plannerVars, component, validatorVars, roleVars, auditVars>>

-----------------------------------------------------------------------------
(* PermissionValidator (security/permission_validator.py) *)

ValidatorRuleIds == {"r1", "r2"}
ValidatorConditionChoices ==
    { NoConditions,
      [NoConditions EXCEPT !.ip_whitelist = Some({"ip1"})] }

\* the number of rules the validator holds
ValidatorRuleCount(ar) ==
    LET RECURSIVE Sum(_)
        Sum(S) == IF S = {} THEN 0
                  ELSE LET k == CHOOSE x \in S : TRUE IN Len(ar[k]) + Sum(S \ {k})
    IN  Sum(DOMAIN ar)

\* add_access_rule: access_rules[resource_type][rule.rule_id] = rule
add_access_rule(resource_type, rule) ==
    /\ component = "validator"
    /\ \/ resource_type \in DOMAIN access_rules
          /\ rule.rule_id \in RuleIds(access_rules[resource_type])
       \/ ValidatorRuleCount(access_rules) < MaxValidatorRules
    /\ access_rules' =
           DictPut(access_rules, resource_type,
                   RulesPut(IF resource_type \in DOMAIN access_rules
                            THEN access_rules[resource_type] ELSE <<>>, rule))
    /\ ret' = [op |-> "add_access_rule", value |-> "None"]
    /\ UNCHANGED <<plannerVars, component, v_audit_log, v_role_permissions, ruleVars, roleVars, auditVars>>

\* PermissionValidator._check_conditions: ip_whitelist and time_restriction only
v_check_conditions(rule, context, hour) ==
    LET c == rule.conditions
        white_ok == \/ c.ip_whitelist = None
                    \/ context.ip_address \in Get(c.ip_whitelist)
        time_ok == \/ c.time_restriction = None
                   \/ Len(Get(c.time_restriction)) # 2
                   \/ (Get(c.time_restriction)[1] <= hour /\ hour < Get(c.time_restriction)[2])
    IN  IF c = NoConditions THEN TRUE ELSE white_ok /\ time_ok

\* a validator that is open for each resource type that has no rule of its own
OpenPerResourceType(ar, resource_type, required_permission, context, hour) ==
    IF resource_type \notin DOMAIN ar THEN TRUE
    ELSE \E i \in DOMAIN ar[resource_type] :
            /\ v_check_conditions(ar[resource_type][i], context, hour)
            /\ ar[resource_type][i].required_permission <= required_permission

\* _check_access_rules
_check_access_rules(ar, resource_type, required_permission, context, hour) ==
    IF DOMAIN ar = {} THEN TRUE
    ELSE IF resource_type \notin DOMAIN ar THEN FALSE
    ELSE \E i \in DOMAIN ar[resource_type] :
            /\ v_check_conditions(ar[resource_type][i], context, hour)
            /\ ar[resource_type][i].required_permission <= required_permission

\* the operation dicts validate_operation is given: "type" and "permission"
\* each present or not, the permission possibly malformed
Operations ==
    [type : {None} \cup {Some(r) : r \in Resources},
     permission : {None, Some(READ), Some(BadPermission)}]

OperationType(operation) ==
    IF operation.type # None THEN Get(operation.type) ELSE "unknown"

OperationPermission(operation) ==
    IF operation.permission # None /\ Get(operation.permission) \in PermissionLevel
    THEN Get(operation.permission)
    ELSE EXECUTE

\* _log_audit_event; of the record, the event type is kept
_log_audit_event(event_type, user_id, resource_type) ==
    v_audit_log' = Append(v_audit_log, [event_type |-> event_type])

\* validate_operation
validate_operation(operation, context, hour) ==
    /\ component = "validator"
    /\ Len(v_audit_log) < MaxAudit
    /\ IF ~_check_access_rules(access_rules, OperationType(operation),
                               OperationPermission(operation), context, hour)
       THEN /\ _log_audit_event("ACCESS_DENIED", context.user_id, OperationType(operation))
            /\ ret' = [op |-> "validate_operation", value |-> "False"]
       ELSE /\ _log_audit_event("ACCESS_GRANTED", context.user_id, OperationType(operation))
            /\ ret' = [op |-> "validate_operation", value |-> "True"]
    /\ UNCHANGED <<plannerVars, component, access_rules, v_role_permissions, ruleVars, roleVars,
                   auditVars>>

\* PermissionValidator.clear_audit_log
v_clear_audit_log ==
    /\ component = "validator"
    /\ v_audit_log' = <<>>
    /\ ret' = [op |-> "v_clear_audit_log", value |-> "None"]
    /\ UNCHANGED <<plannerVars, component, access_rules, v_role_permissions, ruleVars, roleVars,
                   auditVars>>

-----------------------------------------------------------------------------
(* RoleManager (security/role_permissions.py) *)

MaxRoles == 4          \* role ids create_role issues in a behaviour that renames roles
RecursionLimit == 6    \* frames get_effective_permissions may nest before RecursionError

UserRoleId == 1
AdminRoleId == 2

default_roles == {"user", "admin"}
NewRoleNames == {"editor"}
\* role names are unique and create_role is the only source of roles, so the
\* names bound the role ids
AllRoleIds == 1 .. (AdminRoleId + Cardinality(NewRoleNames))
GrantResources == {"documents"}
QueryResources == {"documents", "shell"}
GrantLevels == {READ, ADMIN}

\* UserRole.__init__
UserRole(name, parent_roles) == [name |-> name, parent_roles |-> parent_roles]

\* the parent_roles lists callers pass: empty, one id, or the two default roles
ParentLists == {<<>>} \cup {<<r>> : r \in AllRoleIds} \cup {<<UserRoleId, AdminRoleId>>}

\* _initialize_default_roles
InitRoles ==
    /\ roles = (UserRoleId :> UserRole("user", <<>>))
               @@ (AdminRoleId :> UserRole("admin", <<UserRoleId>>))
    /\ role_names = [n \in default_roles |-> IF n = "user" THEN UserRoleId ELSE AdminRoleId]
    /\ role_permissions = EmptyDict
    /\ next_role_id = AdminRoleId + 1

\* a create_role that does not look the name up before it stores the role
CreateRoleUnchecked(name, parent_roles) ==
    /\ roles' = DictPut(roles, next_role_id, UserRole(name, parent_roles))
    /\ role_names' = DictPut(role_names, name, next_role_id)
    /\ role_permissions' = DictPut(role_permissions, next_role_id, EmptyDict)
    /\ next_role_id' = next_role_id + 1
    /\ ret' = [op |-> "create_role", value |-> "id"]
    /\ UNCHANGED <<plannerVars, component, ruleVars, validatorVars, auditVars>>

\* create_role
create_role(name, parent_roles) ==
    /\ IF name \in DOMAIN role_names
       THEN /\ ret' = [op |-> "create_role", value |-> "ValueError"]
            /\ UNCHANGED roleVars
       ELSE /\ roles' = DictPut(roles, next_role_id, UserRole(name, parent_roles))
            /\ role_names' = DictPut(role_names, name, next_role_id)
            /\ role_permissions' = DictPut(role_permissions, next_role_id, EmptyDict)
            /\ next_role_id' = next_role_id + 1
            /\ ret' = [op |-> "create_role", value |-> "id"]
    /\ UNCHANGED <<plannerVars, component, ruleVars, validatorVars, auditVars>>

\* delete_role: line 171 reads self.roles[role_id] after line 168 deleted it,
\* so the call raises KeyError with only the role table changed
delete_role(role_id) ==
    /\ IF role_id \notin DOMAIN roles
       THEN /\ ret' = [op |-> "delete_role", value |-> "False"]
            /\ UNCHANGED roleVars
       ELSE IF roles[role_id].name \in default_roles
       THEN /\ ret' = [op |-> "delete_role", value |-> "False"]
            /\ UNCHANGED roleVars
       ELSE LET after_del == DictDel(roles, role_id)
            IN  /\ roles' = after_del
                /\ IF role_id \notin DOMAIN after_del
                   THEN /\ ret' = [op |-> "delete_role", value |-> "KeyError"]
                        /\ UNCHANGED <<role_names, role_permissions>>
                   ELSE /\ role_names' = DictDel(role_names, after_del[role_id].name)
                        /\ role_permissions' = DictDel(role_permissions, role_id)
                        /\ ret' = [op |-> "delete_role", value |-> "True"]
                /\ UNCHANGED next_role_id
    /\ UNCHANGED <<plannerVars, component, ruleVars, validatorVars, auditVars>>

\* add_permission (the UserPermission records it also stores are never read back)
add_permission(role_id, resource_type, level) ==
    /\ IF role_id \notin DOMAIN roles
       THEN /\ ret' = [op |-> "add_permission", value |-> "ValueError"]
            /\ UNCHANGED roleVars
       ELSE /\ role_permissions' =
                   DictPut(role_permissions, role_id,
                           DictPut(IF role_id \in DOMAIN role_permissions
                                   THEN role_permissions[role_id] ELSE EmptyDict,
                                   resource_type, level))
            /\ ret' = [op |-> "add_permission", value |-> "id"]
            /\ UNCHANGED <<roles, role_names, next_role_id>>
    /\ UNCHANGED <<plannerVars, component, ruleVars, validatorVars, auditVars>>

\* remove_permission
remove_permission(role_id, resource_type) ==
    /\ IF \/ role_id \notin DOMAIN roles
          \/ role_id \notin DOMAIN role_permissions
          \/ resource_type \notin DOMAIN role_permissions[role_id]
       THEN /\ ret' = [op |-> "remove_permission", value |-> "False"]
            /\ UNCHANGED roleVars
       ELSE /\ role_permissions' =
                   IF DOMAIN role_permissions[role_id] = {resource_type}
                   THEN DictDel(role_permissions, role_id)
                   ELSE DictPut(role_permissions, role_id,
                                DictDel(role_permissions[role_id], resource_type))
            /\ ret' = [op |-> "remove_permission", value |-> "True"]
            /\ UNCHANGED <<roles, role_names, next_role_id>>
    /\ UNCHANGED <<plannerVars, component, ruleVars, validatorVars, auditVars>>

\* update_role; updates has "name" and "parent_roles" each present or not
update_role(role_id, updates) ==
    /\ IF role_id \notin DOMAIN roles
       THEN /\ ret' = [op |-> "update_role", value |-> "False"]
            /\ UNCHANGED roleVars
       ELSE IF /\ updates.name # None
               /\ Get(updates.name) \in DOMAIN role_names
               /\ role_names[Get(updates.name)] # role_id
       THEN /\ ret' = [op |-> "update_role", value |-> "False"]
            /\ UNCHANGED roleVars
       ELSE LET named == IF updates.name # None
                         THEN [roles[role_id] EXCEPT !.name = Get(updates.name)]
                         ELSE roles[role_id]
                after == IF updates.parent_roles # None
                         THEN [named EXCEPT !.parent_roles = Get(updates.parent_roles)]
                         ELSE named
            IN  /\ roles' = DictPut(roles, role_id, after)
                /\ role_names' =
                       IF updates.name # None
                       THEN DictPut(DictDel(role_names, roles[role_id].name),
                                    Get(updates.name), role_id)
                       ELSE role_names
                /\ ret' = [op |-> "update_role", value |-> "True"]
                /\ UNCHANGED <<role_permissions, next_role_id>>
    /\ UNCHANGED <<plannerVars, component, ruleVars, validatorVars, auditVars>>

\* a merge in which the level read last replaces the one already in result
MergeLatest(result, perms) ==
    [r \in DOMAIN result \cup DOMAIN perms |->
        IF r \in DOMAIN perms THEN perms[r] ELSE result[r]]

\* the "only keep highest level" merge of one resource -> level dict into result
MergeHighest(result, perms) ==
    [r \in DOMAIN result \cup DOMAIN perms |->
        IF r \notin DOMAIN perms THEN result[r]
        ELSE IF r \notin DOMAIN result \/ perms[r] > result[r] THEN perms[r]
        ELSE result[r]]

\* the parent ids get_effective_permissions recurses into
KnownParents(rl, role_id) ==
    SelectSeq(rl[role_id].parent_roles, LAMBDA pid : pid \in DOMAIN rl)

\* get_effective_permissions, from position i of role_ids on, in the frame at
\* the given depth: [error |-> TRUE] is the RecursionError the interpreter
\* raises when the frames nest beyond its limit, which no frame catches
RECURSIVE EffectiveFrom(_, _, _, _, _, _)
EffectiveFrom(rl, rp, role_ids, i, result, depth) ==
    IF depth > RecursionLimit THEN [error |-> TRUE, perms |-> EmptyDict]
    ELSE IF i > Len(role_ids) THEN [error |-> FALSE, perms |-> result]
    ELSE LET role_id == role_ids[i]
             direct == IF role_id \in DOMAIN rp
                       THEN MergeHighest(result, rp[role_id]) ELSE result
         IN  IF role_id \in DOMAIN rl
             THEN LET parent_permissions ==
                          EffectiveFrom(rl, rp, KnownParents(rl, role_id), 1,
                                        EmptyDict, depth + 1)
                  IN  IF parent_permissions.error
                      THEN [error |-> TRUE, perms |-> EmptyDict]
                      ELSE EffectiveFrom(rl, rp, role_ids, i + 1,
                                         MergeHighest(direct, parent_permissions.perms),
                                         depth)
             ELSE EffectiveFrom(rl, rp, role_ids, i + 1, direct, depth)

get_effective_permissions(rl, rp, role_ids) ==
    EffectiveFrom(rl, rp, role_ids, 1, EmptyDict, 1)

\* check_permission: "RecursionError" when get_effective_permissions raised
check_permission(rl, rp, role_ids, resource_type, required_level) ==
    LET permissions == get_effective_permissions(rl, rp, role_ids)
    IN  IF permissions.error THEN "RecursionError"
        ELSE IF resource_type \in DOMAIN permissions.perms
             THEN Bool(permissions.perms[resource_type] >= required_level)
             ELSE Bool(required_level = NONE)

\* get_role_permissions: the grants stored under the id, {} when none are
get_role_permissions(rp, role_id) ==
    IF role_id \notin DOMAIN rp THEN EmptyDict ELSE rp[role_id]

\* get_role_hierarchy: {} for an id that is not in the role table, otherwise
\* the hierarchy, which get_effective_permissions is called for
get_role_hierarchy(rl, rp, role_id) ==
    IF role_id \notin DOMAIN rl THEN "empty"
    ELSE IF get_effective_permissions(rl, rp, <<role_id>>).error THEN "RecursionError"
    ELSE "hierarchy"

\* a call of get_role_permissions
GetRolePermissions(role_id) ==
    /\ ret' = [op |-> "get_role_permissions",
               value |-> IF get_role_permissions(role_permissions, role_id) = EmptyDict
                         THEN "empty" ELSE "dict"]
    /\ UNCHANGED <<plannerVars, component, ruleVars, validatorVars, roleVars, auditVars>>

\* a call of get_role_hierarchy
GetRoleHierarchy(role_id) ==
    /\ ret' = [op |-> "get_role_hierarchy",
               value |-> get_role_hierarchy(roles, role_permissions, role_id)]
    /\ UNCHANGED <<plannerVars, component, ruleVars, validatorVars, roleVars, auditVars>>

GetEffectivePermissions(role_ids) ==
    /\ ret' = [op |-> "get_effective_permissions",
               value |-> IF get_effective_permissions(roles, role_permissions, role_ids).error
                         THEN "RecursionError" ELSE "dict"]
    /\ UNCHANGED <<plannerVars, component, ruleVars, validatorVars, roleVars, auditVars>>

CheckPermission(role_ids, resource_type, required_level) ==
    /\ ret' = [op |-> "check_permission",
               value |-> check_permission(roles, role_permissions, role_ids,
                                          resource_type, required_level)]
    /\ UNCHANGED <<plannerVars, component, ruleVars, validatorVars, roleVars, auditVars>>

\* RolePermissions.has_permission
has_permission(permissions, resource, level) ==
    IF resource \notin DOMAIN permissions THEN FALSE
    ELSE permissions[resource] >= level

\* PermissionValidator.check_user_permission, from position i of user_roles on
RECURSIVE CheckUserRolesFrom(_, _, _, _, _)
CheckUserRolesFrom(vrp, user_roles, i, resource_type, required_permission) ==
    IF i > Len(user_roles) THEN FALSE
    ELSE IF /\ user_roles[i] \in DOMAIN vrp
            /\ has_permission(vrp[user_roles[i]], resource_type, required_permission)
         THEN TRUE
    ELSE CheckUserRolesFrom(vrp, user_roles, i + 1, resource_type, required_permission)

check_user_permission(vrp, user_roles, resource_type, required_permission) ==
    CheckUserRolesFrom(vrp, user_roles, 1, resource_type, required_permission)

\* PermissionValidator.add_role_permissions: the role's entry is replaced
add_role_permissions(vrp, role_name, permissions) == DictPut(vrp, role_name, permissions)

\* RoleManager.apply_to_validator: every id of role_permissions that is in the
\* role table hands its own grants to the validator under the role's name
RECURSIVE ApplyFrom(_, _, _, _)
ApplyFrom(vrp, rl, rp, ids) ==
    IF ids = {} THEN vrp
    ELSE LET role_id == CHOOSE x \in ids : \A y \in ids : x <= y
         IN  ApplyFrom(IF role_id \in DOMAIN rl
                       THEN add_role_permissions(vrp, rl[role_id].name, rp[role_id])
                       ELSE vrp,
                       rl, rp, ids \ {role_id})

apply_to_validator ==
    /\ v_role_permissions' = ApplyFrom(v_role_permissions, roles, role_permissions,
                                       DOMAIN role_permissions)
    /\ ret' = [op |-> "apply_to_validator", value |-> "None"]
    /\ UNCHANGED <<plannerVars, component, access_rules, v_audit_log, ruleVars, roleVars, auditVars>>

\* a call of check_user_permission
CheckUserPermission(user_roles, resource_type, required_permission) ==
    /\ ret' = [op |-> "check_user_permission",
               value |-> Bool(check_user_permission(v_role_permissions, user_roles,
                                                    resource_type, required_permission))]
    /\ UNCHANGED <<plannerVars, component, ruleVars, validatorVars, roleVars, auditVars>>

-----------------------------------------------------------------------------
(* AuditLogger (security/audit_logger.py) *)

MaxLogCalls == 2       \* log_event calls followed since the log was last empty
MaxHandlers == 1       \* handlers registered at once
MaxClock == 1          \* days the clock advances in one behaviour

DefaultMaxEntries == 10000
DefaultRetentionPeriod == 30
DefaultLogLevel == 3
DefaultSeverity == 3

EventTypes == {"E1", "E2"}
Severities == {2, 3, 5}
Categories == {"security"}
\* a handler returns, raises, or calls log_event with an event of its own
HandlerKinds == {"ok", "raises", "relogs"}
HandlerEvent == "H"
\* the arguments set_retention_policy and set_log_level are called with
MaxEntriesChoices == {-1, 0, 1, 2}
RetentionChoices == {0, 1}
LevelChoices == {0, 3, 7}

\* the parameters AuditLogEntry.__init__ declares, and those with no default
InitParameters == {"event_type", "message", "context", "operation", "severity", "category"}
RequiredParameters == {"event_type", "message", "context", "operation"}

\* AuditLogEntry(**kwargs): a keyword __init__ does not declare, or a missing
\* required one, raises TypeError; otherwise the entry, stamped with now
AuditLogEntry(kwargs, now) ==
    IF DOMAIN kwargs \subseteq InitParameters /\ RequiredParameters \subseteq DOMAIN kwargs
    THEN [error |-> FALSE,
          entry |-> Some([event_type |-> kwargs.event_type,
                          user_id |-> kwargs.context.user_id,
                          severity |-> IF "severity" \in DOMAIN kwargs
                                       THEN kwargs.severity ELSE DefaultSeverity,
                          category |-> IF "category" \in DOMAIN kwargs
                                       THEN kwargs.category ELSE "general",
                          timestamp |-> now])]
    ELSE [error |-> TRUE, entry |-> None]

\* the keyword arguments log_event builds its entry with (lines 192-203)
LogEventKwargs(event_type, message, context, severity, category) ==
    [entry_id |-> "uuid4", severity |-> severity, category |-> category,
     description |-> message,
     details |-> [event_type |-> event_type, user_id |-> context.user_id]]

\* Python's s[start:] on a list
SliceFrom(s, start) ==
    LET from == IF start < 0
                THEN (IF Len(s) + start < 0 THEN 0 ELSE Len(s) + start)
                ELSE (IF start > Len(s) THEN Len(s) ELSE start)
    IN  SubSeq(s, from + 1, Len(s))

\* log_event, lines 208-211: the size limit
EnforceSizeLimit(log, limit) ==
    IF Len(log) > limit THEN SliceFrom(log, -limit) ELSE log

\* the calls log_event was asked to store, while they can be followed
Followed(calls) == [valid |-> TRUE, calls |-> calls]
NotFollowed == [valid |-> FALSE, calls |-> <<>>]

\* the log after a log_event made from inside a handler: the entry is built
\* and stored as in log_event; the handler does not log again for it
Reentered(log, context, severity, category, limit, now) ==
    LET made == AuditLogEntry(LogEventKwargs(HandlerEvent, "m", context, severity,
                                             category), now)
    IN  IF made.error THEN log
        ELSE EnforceSizeLimit(Append(log, Get(made.entry)), limit)

\* the log after the handlers were notified of an entry, in list order
RECURSIVE AfterHandlers(_, _, _, _, _, _, _)
AfterHandlers(log, hs, context, severity, category, limit, now) ==
    IF hs = <<>> THEN log
    ELSE AfterHandlers(IF Head(hs) = "relogs"
                       THEN Reentered(log, context, severity, category, limit, now)
                       ELSE log,
                       Tail(hs), context, severity, category, limit, now)

\* _notify_handlers: each handler is called once with the entry, in list
\* order; what a handler raises is swallowed
_notify_handlers(hs, entry) ==
    [i \in 1 .. Len(hs) |-> [handler |-> hs[i], event_type |-> entry.event_type,
                             raised |-> hs[i] = "raises"]]

\* log_event; the entry is built before anything is stored or any handler called
log_event(event_type, message, context, severity, category) ==
    /\ IF severity < log_level
       THEN /\ ret' = [op |-> "log_event", value |-> "none"]
            /\ notified' = <<>>
            /\ UNCHANGED <<audit_log, requested>>
       ELSE LET made == AuditLogEntry(LogEventKwargs(event_type, message, context,
                                                     severity, category), clock)
            IN  /\ Len(requested.calls) < MaxLogCalls
                /\ requested' = [requested EXCEPT !.calls = Append(@, event_type)]
                /\ IF made.error
                   THEN /\ ret' = [op |-> "log_event", value |-> "TypeError"]
                        /\ notified' = <<>>
                        /\ UNCHANGED audit_log
                   ELSE /\ audit_log' =
                               AfterHandlers(EnforceSizeLimit(Append(audit_log,
                                                                     Get(made.entry)),
                                                              max_entries),
                                             handlers, context, severity, category,
                                             max_entries, clock)
                        /\ notified' = _notify_handlers(handlers, Get(made.entry))
                        /\ ret' = [op |-> "log_event", value |-> "id"]
    /\ UNCHANGED <<max_entries, retention_period, log_level, handlers, clock>>
    /\ UNCHANGED <<plannerVars, component, ruleVars, validatorVars, roleVars>>

\* add_handler
add_handler(handler) ==
    /\ Len(handlers) < MaxHandlers
    /\ handlers' = Append(handlers, handler)
    /\ ret' = [op |-> "add_handler", value |-> "None"]
    /\ UNCHANGED <<audit_log, max_entries, retention_period, log_level, clock, requested>>
    /\ UNCHANGED <<plannerVars, component, ruleVars, validatorVars, roleVars, notified>>

\* remove_handler: list.remove drops the first occurrence
remove_handler(handler) ==
    /\ handlers' =
           IF handler \in Range(handlers)
           THEN LET first == CHOOSE i \in DOMAIN handlers :
                                 /\ handlers[i] = handler
                                 /\ \A j \in 1 .. (i - 1) : handlers[j] # handler
                IN  SubSeq(handlers, 1, first - 1) \o SubSeq(handlers, first + 1, Len(handlers))
           ELSE handlers
    /\ ret' = [op |-> "remove_handler", value |-> "None"]
    /\ UNCHANGED <<audit_log, max_entries, retention_period, log_level, clock, requested>>
    /\ UNCHANGED <<plannerVars, component, ruleVars, validatorVars, roleVars, notified>>

\* clear_audit_log
clear_audit_log ==
    /\ audit_log' = <<>>
    /\ requested' = Followed(<<>>)
    /\ ret' = [op |-> "clear_audit_log", value |-> "None"]
    /\ UNCHANGED <<max_entries, retention_period, log_level, handlers, clock>>
    /\ UNCHANGED <<plannerVars, component, ruleVars, validatorVars, roleVars, notified>>

\* set_retention_policy: stores both values, neither checked nor applied to the log
set_retention_policy(new_max_entries, new_retention_period) ==
    /\ max_entries' = new_max_entries
    /\ retention_period' = new_retention_period
    /\ requested' = IF audit_log = <<>> THEN Followed(<<>>) ELSE NotFollowed
    /\ ret' = [op |-> "set_retention_policy", value |-> "None"]
    /\ UNCHANGED <<audit_log, log_level, handlers, clock>>
    /\ UNCHANGED <<plannerVars, component, ruleVars, validatorVars, roleVars, notified>>

\* set_log_level: max(1, min(5, level))
set_log_level(level) ==
    /\ log_level' = (IF level > 5 THEN 5 ELSE IF level < 1 THEN 1 ELSE level)
    /\ ret' = [op |-> "set_log_level", value |-> "None"]
    /\ UNCHANGED <<audit_log, max_entries, retention_period, handlers, clock, requested>>
    /\ UNCHANGED <<plannerVars, component, ruleVars, validatorVars, roleVars, notified>>

\* cleanup_old_entries, lines 364-372: the length of the oldest prefix older
\* than the cutoff
RECURSIVE OldCount(_, _, _)
OldCount(log, cutoff_date, old_count) ==
    IF old_count < Len(log) /\ log[old_count + 1].timestamp < cutoff_date
    THEN OldCount(log, cutoff_date, old_count + 1)
    ELSE old_count

\* cleanup_old_entries
cleanup_old_entries ==
    /\ IF retention_period <= 0
       THEN /\ ret' = [op |-> "cleanup_old_entries", value |-> ToString(0)]
            /\ UNCHANGED <<audit_log, requested>>
       ELSE LET old_count == OldCount(audit_log, clock - retention_period, 0)
            IN  /\ audit_log' = IF old_count > 0 THEN SliceFrom(audit_log, old_count)
                                ELSE audit_log
                /\ requested' = IF old_count > 0 THEN NotFollowed ELSE requested
                /\ ret' = [op |-> "cleanup_old_entries", value |-> ToString(old_count)]
    /\ UNCHANGED <<max_entries, retention_period, log_level, handlers, clock>>
    /\ UNCHANGED <<plannerVars, component, ruleVars, validatorVars, roleVars, notified>>

\* AuditFilter.__init__: a time that is not given is None, a list that is not
\* given is empty
AuditFilter(start_time, end_time, severity_min, severity_max, categories, users) ==
    [start_time |-> start_time, end_time |-> end_time,
     severity_min |-> severity_min, severity_max |-> severity_max,
     categories |-> categories, users |-> users]

\* AuditFilter.matches. A timestamp is datetime.now().isoformat(), which
\* fromisoformat reads back unchanged; the user check reads entry.details,
\* an attribute AuditLogEntry.__init__ does not set
matches(filter, entry) ==
    IF filter.start_time # None /\ entry.timestamp < Get(filter.start_time) THEN "False"
    ELSE IF filter.end_time # None /\ entry.timestamp > Get(filter.end_time) THEN "False"
    ELSE IF ~(filter.severity_min <= entry.severity /\ entry.severity <= filter.severity_max)
         THEN "False"
    ELSE IF filter.categories # <<>> /\ entry.category \notin Range(filter.categories)
         THEN "False"
    ELSE IF filter.users # <<>>
         THEN IF "details" \in DOMAIN entry
              THEN Bool(entry.details.user_id \in Range(filter.users))
              ELSE "AttributeError"
    ELSE "True"

\* get_audit_log: the entries the filter matches, in log order; what matches
\* raises leaves the call
get_audit_log(log, filter_criteria) ==
    IF filter_criteria = None THEN [error |-> FALSE, result |-> log]
    ELSE LET Kept(e) == matches(Get(filter_criteria), e) = "True"
         IN  IF \E i \in DOMAIN log : matches(Get(filter_criteria), log[i]) = "AttributeError"
             THEN [error |-> TRUE, result |-> <<>>]
             ELSE [error |-> FALSE, result |-> SelectSeq(log, Kept)]

\* a call of get_audit_log
GetAuditLog(filter_criteria) ==
    /\ ret' = LET found == get_audit_log(audit_log, filter_criteria)
              IN  [op |-> "get_audit_log",
                   value |-> IF found.error THEN "AttributeError"
                             ELSE ToString(Len(found.result))]
    /\ UNCHANGED <<audit_log, max_entries, retention_period, log_level, handlers, clock,
                   requested>>
    /\ UNCHANGED <<plannerVars, component, ruleVars, validatorVars, roleVars, notified>>

\* AuditLogEntry.to_dict: the attributes __init__ set, under their keys
to_dict(entry) ==
    [event_type |-> entry.event_type, message |-> "m",
     context |-> [user_id |-> entry.user_id], operation |-> "op",
     severity |-> entry.severity, category |-> entry.category,
     timestamp |-> entry.timestamp]

\* AuditLogEntry.from_dict: the constructor is called with event_type,
\* message, context, operation, severity and category of the dictionary; the
\* constructor stamps the entry with the time of the call
from_dict(data, now) ==
    Get(AuditLogEntry([event_type |-> data.event_type, message |-> data.message,
                       context |-> data.context, operation |-> data.operation,
                       severity |-> data.severity, category |-> data.category],
                      now).entry)

\* export_log: the dictionaries of the entries get_audit_log returns, and
\* their number
export_log(log, filter_criteria) ==
    LET found == get_audit_log(log, filter_criteria)
    IN  [error |-> found.error,
         metadata |-> [total_entries |-> Len(found.result)],
         entries |-> [i \in DOMAIN found.result |-> to_dict(found.result[i])]]

\* a call of export_log
ExportLog(filter_criteria) ==
    /\ ret' = LET exported == export_log(audit_log, filter_criteria)
              IN  [op |-> "export_log",
                   value |-> IF exported.error THEN "AttributeError"
                             ELSE ToString(exported.metadata.total_entries)]
    /\ UNCHANGED <<audit_log, max_entries, retention_period, log_level, handlers, clock,
                   requested>>
    /\ UNCHANGED <<plannerVars, component, ruleVars, validatorVars, roleVars, notified>>

\* time passes
Tick ==
    /\ clock < MaxClock
    /\ clock' = clock + 1
    /\ UNCHANGED <<audit_log, max_entries, retention_period, log_level, handlers,
                   requested, ret>>
    /\ UNCHANGED <<plannerVars, component, ruleVars, validatorVars, roleVars, notified>>

-----------------------------------------------------------------------------
(* The state after construction, and the specifications *)

\* AccessRuleManager.__init__
InitRules ==
    /\ rules = <<>>
    /\ rules_by_type = EmptyDict
    /\ rules_by_resource = EmptyDict
    /\ next_rule_id = 1

\* PermissionValidator.__init__
InitValidator ==
    /\ access_rules = EmptyDict
    /\ v_audit_log = <<>>
    /\ v_role_permissions = EmptyDict

\* AuditLogger.__init__
InitAudit ==
    /\ audit_log = <<>>
    /\ max_entries = DefaultMaxEntries
    /\ retention_period = DefaultRetentionPeriod
    /\ log_level = DefaultLogLevel
    /\ handlers = <<>>
    /\ clock = 0
    /\ requested = Followed(<<>>)
    /\ notified = <<>>

\* TaskPrioritizer.__init__ (TaskPlanner.__init__ and PriorityOptimizer.__init__)
InitPlanner ==
    /\ optimizer_rules = <<>>
    /\ active_plans = EmptyDict
    /\ next_uuid = 1
    /\ returned_plan = None

\* every object freshly constructed
Constructed ==
    /\ InitRules
    /\ InitValidator
    /\ InitRoles
    /\ InitPlanner
    /\ InitAudit
    /\ ret = [op |-> "init", value |-> "None"]

InitAccess == component \in {"manager", "validator"} /\ Constructed
InitManager == component = "manager" /\ Constructed
InitRoleManager == component = "role_manager" /\ Constructed
InitAuditLogger == component = "audit_logger" /\ Constructed
InitPrioritizer == component = "prioritizer" /\ Constructed

\* the contexts, levels and hours the checks range over
\* SecurityContext (permission_validator.py); session_id and timestamp are fixed
CheckContexts ==
    [user_id : Users, roles : {<<"user">>, <<"admin">>}, session_id : {"s1"},
     ip_address : Ips, timestamp : {"t0"}]
CheckHours == {8, 16, 17}
\* the contexts the calls of a behaviour are made with
CallContexts ==
    { [user_id |-> "u1", roles |-> <<"admin">>, session_id |-> "s1",
       ip_address |-> "ip1", timestamp |-> "t0"],
      [user_id |-> "u2", roles |-> <<"user">>, session_id |-> "s1",
       ip_address |-> "ip2", timestamp |-> "t0"] }

\* the rules the decision specification creates: every kind of condition, and
\* both permission levels on the unconditional rule
RuleShapes ==
    { [required_permission |-> READ, conditions |-> NoConditions],
      [required_permission |-> ADMIN, conditions |-> NoConditions],
      [required_permission |-> ADMIN,
       conditions |-> [NoConditions EXCEPT !.time_restriction = Some(<<9, 17>>)]],
      [required_permission |-> READ,
       conditions |-> [NoConditions EXCEPT !.ip_whitelist = Some({"ip1"})]],
      [required_permission |-> ADMIN,
       conditions |-> [NoConditions EXCEPT !.required_roles = Some({"admin"})]],
      [required_permission |-> READ,
       conditions |-> [NoConditions EXCEPT
                          !.context_conditions = Some({<<"user_id", "u1">>})]] }

\* the calls on an AccessRuleManager and on a PermissionValidator that build
\* the rules and ask for decisions
NextAccess ==
    \/ \E r \in Resources, s \in RuleShapes, pr \in {HIGH, LOW} :
          create_rule(r, s.required_permission, "d0", "deny", s.conditions, pr)
    \/ \E id \in 1 .. MaxRules : delete_rule(id)
    \/ \E ctx \in CallContexts, r \in Resources :
          ValidateAccess(ctx, r, EXECUTE, 16)
    \/ \E r \in Resources, id \in ValidatorRuleIds, p \in RulePermissions,
          c \in ValidatorConditionChoices :
          add_access_rule(r, AccessRule(id, <<"d0">>, r, p, c))
    \/ \E o \in Operations, ctx \in CallContexts : validate_operation(o, ctx, 16)
    \/ v_clear_audit_log

SpecAccess == InitAccess /\ [][NextAccess]_vars

\* the filters get_rules is called with
ResourceFilters == {None} \cup {Some(r) : r \in Resources}
TypeFilters == {None} \cup {Some(t) : t \in RuleConditionType}

NextGetRules ==
    \/ \E r \in Resources, s \in RuleShapes :
          create_rule(r, s.required_permission, "d0", "deny", s.conditions, HIGH)
    \/ \E id \in 1 .. MaxRules : delete_rule(id)
    \/ \E r \in ResourceFilters, t \in TypeFilters : GetRules(r, t)

SpecGetRules == InitManager /\ [][NextGetRules]_vars

\* the calls that change an AccessRuleManager, with every kind of update
NextRules ==
    \/ \E r \in Resources, p \in RulePermissions, c \in RulesConditionChoices,
          pr \in {HIGH, LOW} :
          create_rule(r, p, "d0", "deny", c, pr)
    \/ \E id \in 1 .. MaxRules, u \in UpdateChoices : update_rule(id, u)
    \/ \E id \in 1 .. MaxRules : delete_rule(id)

SpecRules == InitManager /\ [][NextRules]_vars

\* the calls on a RoleManager
RoleIdLists == {<<>>} \cup {<<a>> : a \in AllRoleIds}
               \cup {<<a, b>> : a \in AllRoleIds, b \in AllRoleIds}

\* a caller of create_role can name only ids that were issued before: the id
\* of the new role is drawn inside create_role
IssuedParentLists == {p \in ParentLists : \A i \in DOMAIN p : p[i] < next_role_id}

\* here update_role changes the parents of a role
GraphUpdateChoices == [name : {None}, parent_roles : {Some(p) : p \in ParentLists}]

NextRoleGraph ==
    \/ \E n \in NewRoleNames, p \in IssuedParentLists : create_role(n, p)
    \/ \E id \in AllRoleIds : delete_role(id)
    \/ \E id \in AllRoleIds, r \in GrantResources, l \in GrantLevels :
          add_permission(id, r, l)
    \/ \E id \in AllRoleIds, r \in GrantResources : remove_permission(id, r)
    \/ \E id \in AllRoleIds, u \in GraphUpdateChoices : update_role(id, u)
    \/ \E ids \in RoleIdLists : GetEffectivePermissions(ids)
    \/ \E ids \in RoleIdLists, r \in QueryResources :
          CheckPermission(ids, r, READ)

SpecRoleGraph == InitRoleManager /\ [][NextRoleGraph]_vars

\* the role names check_user_permission is asked about
RoleNameLists == {<<n>> : n \in default_roles \cup NewRoleNames}

\* the role table is set up and then handed to a validator; the validator's
\* entries are the role manager's own dicts, so the grants are followed only
\* up to the hand-over
NextApply ==
    \/ \E n \in NewRoleNames, p \in IssuedParentLists :
          v_role_permissions = EmptyDict /\ create_role(n, p)
    \/ \E id \in AllRoleIds, r \in GrantResources, l \in GrantLevels :
          v_role_permissions = EmptyDict /\ add_permission(id, r, l)
    \/ \E id \in AllRoleIds, r \in GrantResources :
          v_role_permissions = EmptyDict /\ remove_permission(id, r)
    \/ apply_to_validator
    \/ \E ns \in RoleNameLists, r \in QueryResources, l \in GrantLevels :
          CheckUserPermission(ns, r, l)
    \/ \E ids \in RoleIdLists, r \in QueryResources, l \in GrantLevels :
          CheckPermission(ids, r, l)

SpecApply == InitRoleManager /\ [][NextApply]_vars

\* the calls on an AuditLogger
\* One stored rule with any combination of condition keys, as create_rule or
\* add_access_rule leaves it, and the evaluation of that rule
AllConditions ==
    [time_restriction : {None, Some(<<9, 17>>)},
     ip_whitelist : {None, Some({"ip1"})},
     ip_blacklist : {None, Some({"ip1"})},
     required_roles : {None, Some({"admin"})},
     context_conditions : {None, Some({<<"user_id", "u1">>})}]
WindowHours == {8, 9, 16, 17, 20}

InitOneRule ==
    /\ component \in {"manager", "validator"}
    /\ \E c \in AllConditions, p \in RulePermissions :
          LET created == AccessRule(1, <<"d0", "(auto-created)">>, "shell", p, c)
              added == AccessRule("r1", <<"d0">>, "shell", p, c)
          IN  IF component = "manager"
              THEN /\ rules = <<created>>
                   /\ rules_by_type = BucketAppend(EmptyDict, _determine_rule_type(created), 1)
                   /\ rules_by_resource = BucketAppend(EmptyDict, "shell", 1)
                   /\ next_rule_id = 2
                   /\ InitValidator
              ELSE /\ InitRules
                   /\ access_rules = DictPut(EmptyDict, "shell", <<added>>)
                   /\ v_audit_log = <<>>
                   /\ v_role_permissions = EmptyDict
    /\ InitRoles
    /\ InitPlanner
    /\ InitAudit
    /\ ret = [op |-> "init", value |-> "None"]

CheckConditions(context, hour) ==
    /\ component = "manager"
    /\ ret' = [op |-> "_check_conditions",
               value |-> Bool(_check_conditions(rules[1], context, hour))]
    /\ UNCHANGED <<plannerVars, component, ruleVars, validatorVars, roleVars, auditVars>>

CheckIpRestrictions(context) ==
    /\ component = "manager"
    /\ ret' = [op |-> "_check_ip_restrictions",
               value |-> Bool(_check_ip_restrictions(rules[1], context))]
    /\ UNCHANGED <<plannerVars, component, ruleVars, validatorVars, roleVars, auditVars>>

DetermineRuleType ==
    /\ component = "manager"
    /\ ret' = [op |-> "_determine_rule_type", value |-> _determine_rule_type(rules[1])]
    /\ UNCHANGED <<plannerVars, component, ruleVars, validatorVars, roleVars, auditVars>>

ValidatorCheckConditions(context, hour) ==
    /\ component = "validator"
    /\ ret' = [op |-> "v_check_conditions",
               value |-> Bool(v_check_conditions(access_rules["shell"][1], context, hour))]
    /\ UNCHANGED <<plannerVars, component, ruleVars, validatorVars, roleVars, auditVars>>

NextConditions ==
    \/ \E ctx \in CheckContexts, h \in WindowHours : CheckConditions(ctx, h)
    \/ \E ctx \in CheckContexts : CheckIpRestrictions(ctx)
    \/ DetermineRuleType
    \/ \E ctx \in CheckContexts, l \in PermissionLevel, h \in WindowHours :
          ValidateAccess(ctx, "shell", l, h)
    \/ \E ctx \in CheckContexts, h \in WindowHours : ValidatorCheckConditions(ctx, h)
    \/ \E o \in Operations, ctx \in CheckContexts, h \in WindowHours :
          validate_operation(o, ctx, h)
    \/ v_clear_audit_log

SpecConditions == InitOneRule /\ [][NextConditions]_vars

\* the calls that name, rename and delete roles
RenameNames == {"user", "editor", "guest"}
RenameChoices == [name : {Some(n) : n \in RenameNames}, parent_roles : {None}]

NextRoleNames ==
    \/ \E n \in RenameNames : next_role_id <= MaxRoles /\ create_role(n, <<>>)
    \/ \E id \in 1 .. MaxRoles, u \in RenameChoices : update_role(id, u)
    \/ \E id \in 1 .. MaxRoles : delete_role(id)
    \/ \E id \in 1 .. MaxRoles : add_permission(id, "documents", READ)
    \/ \E id \in 1 .. MaxRoles : remove_permission(id, "documents")
    \/ \E id \in 1 .. MaxRoles : GetRolePermissions(id)
    \/ \E id \in 1 .. MaxRoles : GetRoleHierarchy(id)

SpecRoleNames == InitRoleManager /\ [][NextRoleNames]_vars

NextAudit ==
    \/ \E e \in EventTypes, ctx \in CallContexts, s \in Severities, c \in Categories :
          log_event(e, "m", ctx, s, c)
    \/ \E h \in HandlerKinds : add_handler(h)
    \/ \E h \in HandlerKinds : remove_handler(h)
    \/ clear_audit_log
    \/ \E m \in MaxEntriesChoices, p \in RetentionChoices : set_retention_policy(m, p)
    \/ \E l \in LevelChoices : set_log_level(l)
    \/ cleanup_old_entries
    \/ Tick

SpecAudit == InitAuditLogger /\ [][NextAudit]_vars

MaxStored == 2         \* entries of a stored log

\* the entries AuditLogEntry.__init__ makes on the days 0 .. MaxClock + 1
StoredEntries ==
    { Get(AuditLogEntry([event_type |-> "E1", message |-> "m", context |-> ctx,
                         operation |-> "op", severity |-> sv, category |-> c], day).entry) :
        ctx \in CallContexts, sv \in {2, 4}, c \in {"security", "general"},
        day \in 0 .. (MaxClock + 1) }

\* the logs of such entries in the order they were made
StoredLogs ==
    { log \in UNION { [1 .. n -> StoredEntries] : n \in 0 .. MaxStored } :
        \A i \in 1 .. (Len(log) - 1) : log[i].timestamp <= log[i + 1].timestamp }

\* the filters get_audit_log is called with
Filters ==
    { AuditFilter(st, et, lo, hi, cats, us) :
        st \in {None, Some(1)}, et \in {None, Some(1)}, lo \in {1, 3}, hi \in {3, 5},
        cats \in {<<>>, <<"security">>}, us \in {<<>>, <<"u1">>} }

\* an AuditLogger whose audit_log list holds entries made on earlier days
InitStoredLog ==
    /\ component = "audit_logger"
    /\ InitRules
    /\ InitValidator
    /\ InitRoles
    /\ InitPlanner
    /\ audit_log \in StoredLogs
    /\ max_entries = DefaultMaxEntries
    /\ retention_period = DefaultRetentionPeriod
    /\ log_level = DefaultLogLevel
    /\ handlers = <<>>
    /\ clock = MaxClock + 1
    /\ requested = NotFollowed
    /\ notified = <<>>
    /\ ret = [op |-> "init", value |-> "None"]

NextStoredLog ==
    \/ \E f \in {None} \cup {Some(f) : f \in Filters} : GetAuditLog(f)
    \/ \E f \in {None} \cup {Some(f) : f \in Filters} : ExportLog(f)
    \/ \E p \in RetentionChoices : set_retention_policy(DefaultMaxEntries, p)
    \/ cleanup_old_entries

SpecStoredLog == InitStoredLog /\ [][NextStoredLog]_vars

-----------------------------------------------------------------------------
(* The planner: planner/task_planner.py and planner/task_prioritization.py *)

\* TaskPriority (task_planner.py); a lower number is a higher priority
TaskPriority_CRITICAL == 1
TaskPriority_HIGH == 2
TaskPriority_MEDIUM == 3
TaskPriority_LOW == 4

MaxUuid == 9           \* uuid4() draws the planner makes in one behaviour

\* str(uuid.uuid4()): the n-th identifier drawn
Uuid(n) == ToString(n)

\* TaskMetadata.__init__: the attributes a context matcher can name
TaskMetadata(created_by, source_type) ==
    [created_by |-> created_by, source_type |-> source_type]

\* ExecutionStep.__init__: parameters None or {} both become {}
ExecutionStep(step_id, description, tool_name, parameters, priority) ==
    [step_id |-> step_id, description |-> description, tool_name |-> tool_name,
     parameters |-> parameters, priority |-> priority, status |-> "PENDING",
     start_time |-> None, end_time |-> None]

\* ExecutionPlan.__init__ followed by add_step for each step
ExecutionPlan(plan_id, task_description, metadata, steps) ==
    [plan_id |-> plan_id, task_description |-> task_description,
     metadata |-> metadata, steps |-> steps, status |-> "PENDING"]

\* the copy a rule makes of a step: a new ExecutionStep carrying the rule's
\* priority, with status, start_time and end_time assigned from the old step
CopyWithPriority(step, priority) ==
    [ExecutionStep(step.step_id, step.description, step.tool_name,
                   step.parameters, priority)
        EXCEPT !.status = step.status,
               !.start_time = step.start_time,
               !.end_time = step.end_time]

\* the four rule classes; a rule carries the payload of its own class only
PriorityRule(rule_id, priority, rule_type) ==
    [rule_id |-> rule_id, priority |-> priority, rule_type |-> rule_type,
     step_ids |-> {}, start_time |-> <<0, 0>>, end_time |-> <<0, 0>>,
     context_matcher |-> {}, evaluator |-> "never"]
StaticPriorityRule(rule_id, priority, step_ids) ==
    [PriorityRule(rule_id, priority, "static") EXCEPT !.step_ids = step_ids]
\* start_time and end_time are "HH:MM"; the model keeps the two integers
\* that map(int, s.split(":")) reads from the string
TimeBasedPriorityRule(rule_id, base_priority, start_time, end_time) ==
    [PriorityRule(rule_id, base_priority, "time_based")
        EXCEPT !.start_time = start_time, !.end_time = end_time]
ContextualPriorityRule(rule_id, priority, context_matcher) ==
    [PriorityRule(rule_id, priority, "contextual")
        EXCEPT !.context_matcher = context_matcher]
DynamicPriorityRule(rule_id, priority, evaluator) ==
    [PriorityRule(rule_id, priority, "dynamic") EXCEPT !.evaluator = evaluator]

\* an overnight test that asks for both comparisons at once
OvernightBoth(rule, current_hour, current_minute) ==
    LET current_time == current_hour * 60 + current_minute
        start_total == rule.start_time[1] * 60 + rule.start_time[2]
        end_total == rule.end_time[1] * 60 + rule.end_time[2]
    IN  IF start_total <= end_total
        THEN start_total <= current_time /\ current_time <= end_total
        ELSE current_time >= start_total /\ current_time <= end_total

\* TimeBasedPriorityRule.apply, lines 142-158: the current time is put
\* together from the hour of one datetime.now() and the minute of another
is_active(rule, current_hour, current_minute) ==
    LET current_time == current_hour * 60 + current_minute
        start_total == rule.start_time[1] * 60 + rule.start_time[2]
        end_total == rule.end_time[1] * 60 + rule.end_time[2]
    IN  IF start_total <= end_total
        THEN start_total <= current_time /\ current_time <= end_total
        ELSE current_time >= start_total \/ current_time <= end_total

\* ContextualPriorityRule._context_matches
_context_matches(rule, plan) ==
    IF plan.metadata = None THEN FALSE
    ELSE IF rule.context_matcher = {} THEN TRUE
    ELSE \A kv \in rule.context_matcher :
            /\ kv[1] \in DOMAIN Get(plan.metadata)
            /\ Get(plan.metadata)[kv[1]] = kv[2]

\* the callables given to DynamicPriorityRule, by name
evaluator(name, plan) ==
    CASE name = "always" -> TRUE
      [] name = "never" -> FALSE
      [] name = "any_critical" ->
            \E i \in DOMAIN plan.steps : plan.steps[i].priority = TaskPriority_CRITICAL

\* the new plan a rule builds: a new plan_id, every step the rule selects
\* copied with the rule's priority, the others added as they are
Rewritten(rule, plan, n, selected) ==
    [plan |-> ExecutionPlan(Uuid(n), plan.task_description, plan.metadata,
                            [i \in DOMAIN plan.steps |->
                                IF plan.steps[i].step_id \in selected
                                THEN CopyWithPriority(plan.steps[i], rule.priority)
                                ELSE plan.steps[i]]),
     next |-> n + 1]

StepIdsOf(plan) == {plan.steps[i].step_id : i \in DOMAIN plan.steps}

\* rule.apply(plan) for each class; now is the <<hour, minute>> the two
\* datetime.now() calls of a time based rule yield. The result is the plan
\* returned and the next uuid not yet drawn.
apply(rule, plan, n, now) ==
    CASE rule.rule_type = "static" ->
            Rewritten(rule, plan, n, rule.step_ids)
      [] rule.rule_type = "time_based" ->
            IF ~is_active(rule, now[1], now[2])
            THEN [plan |-> plan, next |-> n]
            ELSE Rewritten(rule, plan, n, StepIdsOf(plan))
      [] rule.rule_type = "contextual" ->
            IF ~_context_matches(rule, plan)
            THEN [plan |-> plan, next |-> n]
            ELSE Rewritten(rule, plan, n, StepIdsOf(plan))
      [] rule.rule_type = "dynamic" ->
            IF ~evaluator(rule.evaluator, plan)
            THEN [plan |-> plan, next |-> n]
            ELSE Rewritten(rule, plan, n, StepIdsOf(plan))

\* PriorityOptimizer.apply_rules: the loop over self.rules.values(), from the
\* k-th rule on; times[k] is what the clock reads while the k-th rule runs
RECURSIVE ApplyRulesFrom(_, _, _, _, _)
ApplyRulesFrom(rs, k, current_plan, n, times) ==
    IF k > Len(rs) THEN [plan |-> current_plan, next |-> n]
    ELSE LET r == apply(rs[k], current_plan, n, times[k])
         IN  ApplyRulesFrom(rs, k + 1, r.plan, r.next, times)

\* a chain that lets only the rule registered last rewrite the plan
ApplyLastOnly(rs, plan, n, times) ==
    IF rs = <<>> THEN [plan |-> plan, next |-> n]
    ELSE apply(rs[Len(rs)], plan, n, times[Len(rs)])

apply_rules(rs, plan, n, times) == ApplyRulesFrom(rs, 1, plan, n, times)

\* PriorityOptimizer._optimize_simple_weighted: every score is 0.5 and the
\* sort is stable, so the steps keep their order; the plan is a new one
_optimize_simple_weighted(plan, n) ==
    [plan |-> ExecutionPlan(Uuid(n), plan.task_description, plan.metadata, plan.steps),
     next |-> n + 1]

\* PriorityOptimizer.optimize_plan
optimize_plan(plan, strategy, n) ==
    IF strategy = "simple_weighted" THEN _optimize_simple_weighted(plan, n)
    ELSE [plan |-> plan, next |-> n]

\* TaskPlanner._generate_steps: four MEDIUM steps with new ids
_generate_steps(n) ==
    [i \in 1..4 |->
        ExecutionStep(Uuid(n + i - 1),
                      <<"Analyze task requirements", "Select appropriate tools",
                        "Execute selected actions", "Submit results to user">>[i],
                      None, {}, TaskPriority_MEDIUM)]

\* TaskPlanner.create_plan: the plan it builds and registers
planner_create_plan(task_description, source, n) ==
    LET metadata == TaskMetadata(source,
                                 IF source = "manual" THEN "user_input" ELSE "system")
    IN  [plan |-> ExecutionPlan(Uuid(n), task_description, Some(metadata),
                                _generate_steps(n + 1)),
         next |-> n + 5]

\* the rules, plans and clock readings the calls are made with
PriorityRuleIds == {"r1", "r2"}
PriorityRuleShapes(id) ==
    {StaticPriorityRule(id, TaskPriority_CRITICAL, {"s1"}),
     TimeBasedPriorityRule(id, TaskPriority_MEDIUM, <<22, 0>>, <<6, 0>>),
     TimeBasedPriorityRule(id, TaskPriority_LOW, <<9, 0>>, <<17, 30>>),
     ContextualPriorityRule(id, TaskPriority_HIGH, {<<"source_type", "system">>}),
     DynamicPriorityRule(id, TaskPriority_HIGH, "any_critical")}
PriorityRules == UNION {PriorityRuleShapes(id) : id \in PriorityRuleIds}

StepOne(priority) == ExecutionStep("s1", "first", None, {}, priority)
StepTwo ==
    [ExecutionStep("s2", "second", Some("shell"), {<<"cmd", "ls">>}, TaskPriority_LOW)
        EXCEPT !.status = "completed", !.start_time = Some(1), !.end_time = Some(2)]
InputPlans ==
    {ExecutionPlan("p0", "task", Some(TaskMetadata("system", "system")),
                   <<StepOne(TaskPriority_MEDIUM), StepTwo>>),
     ExecutionPlan("p0", "task", None, <<StepTwo, StepOne(TaskPriority_CRITICAL)>>)}
ChainTimes == {<<12, 0>>, <<23, 30>>}
Hours == {2, 6, 12, 22, 23}
Minutes == {0, 1}

\* PriorityOptimizer.add_rule: self.rules[rule.rule_id] = rule
optimizer_add_rule(rule) ==
    /\ component = "prioritizer"
    /\ optimizer_rules' =
          IF \E i \in DOMAIN optimizer_rules : optimizer_rules[i].rule_id = rule.rule_id
          THEN [i \in DOMAIN optimizer_rules |->
                   IF optimizer_rules[i].rule_id = rule.rule_id
                   THEN rule ELSE optimizer_rules[i]]
          ELSE Append(optimizer_rules, rule)
    /\ ret' = [op |-> "add_rule", value |-> "None"]
    /\ UNCHANGED <<active_plans, next_uuid, returned_plan>>
    /\ UNCHANGED <<component, ruleVars, validatorVars, roleVars, auditVars>>

\* PriorityOptimizer.remove_rule
optimizer_remove_rule(rule_id) ==
    /\ component = "prioritizer"
    /\ optimizer_rules' = SelectSeq(optimizer_rules, LAMBDA r : r.rule_id # rule_id)
    /\ ret' = [op |-> "remove_rule", value |-> "None"]
    /\ UNCHANGED <<active_plans, next_uuid, returned_plan>>
    /\ UNCHANGED <<component, ruleVars, validatorVars, roleVars, auditVars>>

\* a call of PriorityOptimizer.apply_rules(plan)
ApplyPriorityRules(plan, times) ==
    /\ component = "prioritizer"
    /\ next_uuid + Len(optimizer_rules) <= MaxUuid + 1
    /\ LET r == apply_rules(optimizer_rules, plan, next_uuid, times)
       IN  /\ returned_plan' = Some(r.plan)
           /\ next_uuid' = r.next
    /\ ret' = [op |-> "apply_rules", value |-> "plan"]
    /\ UNCHANGED <<optimizer_rules, active_plans>>
    /\ UNCHANGED <<component, ruleVars, validatorVars, roleVars, auditVars>>

\* a call of TimeBasedPriorityRule.apply(plan) on the i-th registered rule
TimeBasedApply(i, plan, current_hour, current_minute) ==
    /\ component = "prioritizer"
    /\ i \in DOMAIN optimizer_rules
    /\ optimizer_rules[i].rule_type = "time_based"
    /\ next_uuid <= MaxUuid
    /\ LET r == apply(optimizer_rules[i], plan, next_uuid, <<current_hour, current_minute>>)
       IN  /\ returned_plan' = Some(r.plan)
           /\ next_uuid' = r.next
    /\ ret' = [op |-> "apply", value |-> optimizer_rules[i].rule_id]
    /\ UNCHANGED <<optimizer_rules, active_plans>>
    /\ UNCHANGED <<component, ruleVars, validatorVars, roleVars, auditVars>>

\* TaskPrioritizer.create_plan: the parent's create_plan registers its plan,
\* then optimize_plan and apply_rules produce the plan that is returned
create_plan(task_description, source, times) ==
    /\ component = "prioritizer"
    /\ next_uuid + 6 + Len(optimizer_rules) <= MaxUuid + 1
    /\ LET base == planner_create_plan(task_description, source, next_uuid)
           optimized_plan == optimize_plan(base.plan, "simple_weighted", base.next)
           final_plan == apply_rules(optimizer_rules, optimized_plan.plan,
                                     optimized_plan.next, times)
       IN  /\ active_plans' = DictPut(active_plans, base.plan.plan_id, base.plan)
           /\ returned_plan' = Some(final_plan.plan)
           /\ next_uuid' = final_plan.next
           /\ ret' = [op |-> "create_plan", value |-> final_plan.plan.plan_id]
    /\ UNCHANGED optimizer_rules
    /\ UNCHANGED <<component, ruleVars, validatorVars, roleVars, auditVars>>

\* TaskPlanner.get_plan_status
get_plan_status(plan_id) ==
    /\ component = "prioritizer"
    /\ ret' = [op |-> "get_plan_status",
               value |-> IF plan_id \notin DOMAIN active_plans
                         THEN "ValueError"
                         ELSE active_plans[plan_id].status]
    /\ UNCHANGED plannerVars
    /\ UNCHANGED <<component, ruleVars, validatorVars, roleVars, auditVars>>

TimesFor(rs) == [DOMAIN rs -> ChainTimes]
KnownPlanIds ==
    DOMAIN active_plans \cup {p.plan_id : p \in returned_plan}

\* the calls that change the rules of the optimizer
NextOptimizerRules ==
    \/ \E rule \in PriorityRules : optimizer_add_rule(rule)
    \/ \E rule_id \in PriorityRuleIds : optimizer_remove_rule(rule_id)

\* a prioritizer whose rules change and that creates plans and reports on them
NextPrioritizer ==
    \/ NextOptimizerRules
    \/ \E source \in {"manual", "system"}, times \in TimesFor(optimizer_rules) :
          create_plan("task", source, times)
    \/ \E plan_id \in KnownPlanIds : get_plan_status(plan_id)

SpecPrioritizer == InitPrioritizer /\ [][NextPrioritizer]_vars

\* an optimizer whose rules change and are applied to plans of the caller
NextPriorityChain ==
    \/ NextOptimizerRules
    \/ \E plan \in InputPlans, times \in TimesFor(optimizer_rules) :
          ApplyPriorityRules(plan, times)

SpecPriorityChain == InitPrioritizer /\ [][NextPriorityChain]_vars

\* time based rules applied one at a time at different times of the day
NextTimeRule ==
    \/ NextOptimizerRules
    \/ \E i \in DOMAIN optimizer_rules, plan \in InputPlans, h \in Hours, m \in Minutes :
          TimeBasedApply(i, plan, h, m)

SpecTimeRule == InitPrioritizer /\ [][NextTimeRule]_vars

-----------------------------------------------------------------------------
(* Claims about the rule store and the validator *)

\* the rules a resource type has, and whether one of them lets the request through
RulesFor(rs, resource_type) == {rs[i] : i \in {j \in DOMAIN rs : rs[j].resource_type = resource_type}}
NoneMatches(rs, resource_type, context, hour) ==
    \A r \in RulesFor(rs, resource_type) : ~_check_conditions(r, context, hour)
ValidatorRulesFor(ar, resource_type) ==
    IF resource_type \in DOMAIN ar THEN Range(ar[resource_type]) ELSE {}
ValidatorNoneMatches(ar, resource_type, context, hour) ==
    \A r \in ValidatorRulesFor(ar, resource_type) : ~v_check_conditions(r, context, hour)

\* C1 as stated: a resource type with zero rules is allowed and one with at
\* least one rule, none matching, is denied, whatever rules other types have
C1_OpenWhenUnconfigured ==
    \A ctx \in CheckContexts, r \in Resources, l \in PermissionLevel, h \in CheckHours :
        /\ component = "manager" =>
              /\ RulesFor(rules, r) = {} => validate_access(rules, ctx, r, l, h).value
              /\ (RulesFor(rules, r) # {} /\ NoneMatches(rules, r, ctx, h))
                    => ~validate_access(rules, ctx, r, l, h).value
        /\ component = "validator" =>
              /\ ValidatorRulesFor(access_rules, r) = {}
                    => _check_access_rules(access_rules, r, l, ctx, h)
              /\ (ValidatorRulesFor(access_rules, r) # {}
                  /\ ValidatorNoneMatches(access_rules, r, ctx, h))
                    => ~_check_access_rules(access_rules, r, l, ctx, h)

\* C1 (amended): validate_access denies a resource type that has zero rules;
\* _check_access_rules allows it only while the validator holds no rule for
\* any resource type, and denies it once another type has a rule; both deny a
\* type with at least one rule when none of its rules matches the context
C1_DenyUnlessNothingConfigured ==
    \A ctx \in CheckContexts, r \in Resources, l \in PermissionLevel, h \in CheckHours :
        /\ component = "manager" =>
              /\ RulesFor(rules, r) = {} => ~validate_access(rules, ctx, r, l, h).value
              /\ (RulesFor(rules, r) # {} /\ NoneMatches(rules, r, ctx, h))
                    => ~validate_access(rules, ctx, r, l, h).value
        /\ component = "validator" =>
              /\ (\A r2 \in Resources : ValidatorRulesFor(access_rules, r2) = {})
                    => _check_access_rules(access_rules, r, l, ctx, h)
              /\ (ValidatorRulesFor(access_rules, r) = {}
                  /\ \E r2 \in Resources : ValidatorRulesFor(access_rules, r2) # {})
                    => ~_check_access_rules(access_rules, r, l, ctx, h)
              /\ (ValidatorRulesFor(access_rules, r) # {}
                  /\ ValidatorNoneMatches(access_rules, r, ctx, h))
                    => ~_check_access_rules(access_rules, r, l, ctx, h)

\* a validator with rules for one resource type only has just denied an operation
C1_Witness ==
    /\ component = "validator"
    /\ \E r \in Resources : ValidatorRulesFor(access_rules, r) = {}
    /\ \E r \in Resources : ValidatorRulesFor(access_rules, r) # {}
    /\ ret = [op |-> "validate_operation", value |-> "False"]
    /\ v_audit_log # <<>> /\ v_audit_log[Len(v_audit_log)].event_type = "ACCESS_DENIED"

\* the priority rank the claim gives a rule, from the condition keys it carries
DerivedRank(rule) ==
    IF rule.conditions.time_restriction # None \/ rule.conditions.ip_whitelist # None
       \/ rule.conditions.ip_blacklist # None
    THEN 1
    ELSE IF rule.conditions.required_roles # None THEN 2 ELSE 3

PositionOf(rs, rule_id) == CHOOSE i \in DOMAIN rs : rs[i].rule_id = rule_id

\* rule a is examined before rule b: lower rank first, insertion order among equals
Before(rs, a, b) ==
    \/ DerivedRank(RuleOf(rs, a)) < DerivedRank(RuleOf(rs, b))
    \/ /\ DerivedRank(RuleOf(rs, a)) = DerivedRank(RuleOf(rs, b))
       /\ PositionOf(rs, a) < PositionOf(rs, b)

Grants(rule, context, level, hour) ==
    _check_conditions(rule, context, hour) /\ rule.required_permission <= level

C3_EveryDecisionAudited ==
    [][ret'.op \in {"validate_access", "validate_operation"}
         => Len(v_audit_log') + Len(audit_log') = Len(v_audit_log) + Len(audit_log) + 1]_vars

\* how often a rule id occurs in a bucket of an index
Occurrences(index, key, rule_id) ==
    IF key \in DOMAIN index
    THEN Cardinality({i \in DOMAIN index[key] : index[key][i] = rule_id})
    ELSE 0

\* C6: every stored rule is once in rules_by_resource under its resource type
\* and once in rules_by_type under the type derived from its conditions, and
\* in no other bucket; a deleted rule is in no bucket
C6_IndicesConsistent ==
    /\ \A x \in Range(rules) :
          /\ \A k \in Resources :
                Occurrences(rules_by_resource, k, x.rule_id)
                    = IF k = x.resource_type THEN 1 ELSE 0
          /\ \A t \in RuleConditionType :
                Occurrences(rules_by_type, t, x.rule_id)
                    = IF t = _determine_rule_type(x) THEN 1 ELSE 0
    /\ \A k \in DOMAIN rules_by_resource : Range(rules_by_resource[k]) \subseteq RuleIds(rules)
    /\ \A t \in DOMAIN rules_by_type : Range(rules_by_type[t]) \subseteq RuleIds(rules)

\* C7: an update_rule that is rejected leaves the rule table and both indices
\* as they were
C7_RejectedUpdateChangesNothing ==
    [][ret' = [op |-> "update_rule", value |-> "False"]
         => UNCHANGED <<rules, rules_by_type, rules_by_resource>>]_vars

-----------------------------------------------------------------------------
(* Claims about the role table *)

\* the role ids reachable from the ids in S along parent_roles of stored roles
RECURSIVE Ancestry(_, _)
Ancestry(rl, S) ==
    LET known == S \cap DOMAIN rl
        more == {p \in DOMAIN rl : \E r \in known : p \in Range(rl[r].parent_roles)}
    IN  IF more \subseteq S THEN S ELSE Ancestry(rl, S \cup more)

Acyclic(rl) ==
    \A r \in DOMAIN rl :
        r \notin Ancestry(rl, {p \in DOMAIN rl : p \in Range(rl[r].parent_roles)})

\* the levels granted for a resource to the listed ids and their ancestors
GrantedLevels(rl, rp, role_ids, resource) ==
    {rp[r][resource] : r \in {x \in Ancestry(rl, Range(role_ids)) \cap DOMAIN rp :
                                  resource \in DOMAIN rp[x]}}

Highest(levels) == CHOOSE l \in levels : \A m \in levels : m <= l

C9_AlwaysReturns ==
    /\ ret.value # "RecursionError"
    /\ \A ids \in RoleIdLists :
          ~get_effective_permissions(roles, role_permissions, ids).error

\* the effective level of a resource: NONE when nothing grants it
EffectiveLevel(rl, rp, role_ids, resource) ==
    IF GrantedLevels(rl, rp, role_ids, resource) = {} THEN NONE
    ELSE Highest(GrantedLevels(rl, rp, role_ids, resource))

\* C10: check_permission is true exactly when the effective level of the
\* resource is at least the required level, a resource nobody grants passing
\* only for NONE
C10_TrueExactlyWhenSufficient ==
    \A ids \in RoleIdLists, r \in QueryResources, l \in PermissionLevel :
        check_permission(roles, role_permissions, ids, r, l)
            = Bool(EffectiveLevel(roles, role_permissions, ids, r) >= l)

-----------------------------------------------------------------------------
(* Claims about the audit log *)

\* C4: the number of stored audit entries never exceeds max_entries
C4_NeverAboveMaxEntries == Len(audit_log) <= max_entries

\* C5: after max_entries + k calls of log_event on an empty log, the log holds
\* exactly the max_entries most recent entries in their original order
C5_KeepsNewestMaxEntries ==
    (requested.valid /\ max_entries >= 0 /\ Len(requested.calls) >= max_entries) =>
        [i \in 1 .. Len(audit_log) |-> audit_log[i].event_type]
            = SubSeq(requested.calls, Len(requested.calls) - max_entries + 1,
                     Len(requested.calls))

-----------------------------------------------------------------------------
(* Claims about role names and role deletion *)

NamesInUse(rl) == {rl[r].name : r \in DOMAIN rl}
UniqueNames(rl) == \A a, b \in DOMAIN rl : a # b => rl[a].name # rl[b].name

\* C11: no two roles of the role table have the same name; a create_role that
\* fails changes nothing and one that succeeds used a name no role had; an
\* update_role that succeeds gave no role the name of another role
C11_NamesUnique ==
    /\ UniqueNames(roles)
    /\ [][/\ UniqueNames(roles')
          /\ ret' = [op |-> "create_role", value |-> "ValueError"]
               => UNCHANGED <<roles, role_names, role_permissions>>
          /\ ret' = [op |-> "create_role", value |-> "id"]
               => roles'[next_role_id].name \notin NamesInUse(roles)
          /\ ret' = [op |-> "update_role", value |-> "True"]
               => \A r \in DOMAIN roles :
                     \/ roles'[r].name = roles[r].name
                     \/ roles'[r].name \notin NamesInUse(roles)]_vars

\* a default role was renamed, three roles exist, and a create_role has just
\* been refused
C11_Witness ==
    /\ ret = [op |-> "create_role", value |-> "ValueError"]
    /\ Cardinality(DOMAIN roles) >= 3
    /\ roles[UserRoleId].name = "guest"

\* C12: delete_role returns false and changes nothing for a protected default
\* role; for any other stored role it returns true and removes the role, its
\* name from the name mapping and its grants
C12_DeleteRemovesEverything ==
    [][ret'.op = "delete_role" =>
          \/ ret'.value = "False" /\ UNCHANGED <<roles, role_names, role_permissions>>
          \/ /\ ret'.value = "True"
             /\ \E id \in DOMAIN roles :
                   /\ roles[id].name \notin default_roles
                   /\ roles' = DictDel(roles, id)
                   /\ roles[id].name \notin DOMAIN role_names'
                   /\ id \notin DOMAIN role_permissions']_vars

-----------------------------------------------------------------------------
(* Claims about the conditions of a rule *)

\* the stored rule, whether it matches, and the decision it leads to
TheRule == IF component = "manager" THEN rules[1] ELSE access_rules["shell"][1]
Matches(context, hour) ==
    IF component = "manager" THEN _check_conditions(TheRule, context, hour)
    ELSE v_check_conditions(TheRule, context, hour)
Allowed(context, level, hour) ==
    IF component = "manager" THEN validate_access(rules, context, "shell", level, hour).value
    ELSE _check_access_rules(access_rules, "shell", level, context, hour)

\* C13: a rule with ip_whitelist matches only addresses in the list, a rule with
\* ip_blacklist does not match an address in the list, and an address is never
\* granted access through a rule that blacklists it
C13_IpListsHonoured ==
    \A ctx \in CheckContexts, h \in WindowHours :
        LET c == TheRule.conditions
        IN  /\ (c.ip_whitelist # None /\ Matches(ctx, h))
                  => ctx.ip_address \in Get(c.ip_whitelist)
            /\ (c.ip_blacklist # None /\ ctx.ip_address \in Get(c.ip_blacklist))
                  => /\ ~Matches(ctx, h)
                     /\ \A l \in PermissionLevel : ~Allowed(ctx, l, h)

\* C14: a rule with time_restriction "s-e" matches only at hours h with
\* s <= h < e; with that rule alone a request outside the window, the hour e
\* included, is denied at every level
C14_WindowHalfOpen ==
    \A ctx \in CheckContexts, h \in WindowHours :
        LET t == TheRule.conditions.time_restriction
        IN  t # None =>
              /\ Matches(ctx, h) => (Get(t)[1] <= h /\ h < Get(t)[2])
              /\ ~(Get(t)[1] <= h /\ h < Get(t)[2])
                    => \A l \in PermissionLevel : ~Allowed(ctx, l, h)

\* the single rule {shell, ADMIN, time_restriction "9-17"} has just failed to
\* match, which only an hour outside the window brings about
C14_Witness ==
    /\ component = "manager"
    /\ rules[1].conditions = [NoConditions EXCEPT !.time_restriction = Some(<<9, 17>>)]
    /\ rules[1].required_permission = ADMIN
    /\ ret = [op |-> "_check_conditions", value |-> "False"]
    /\ ~validate_access(rules, CHOOSE ctx \in CheckContexts : TRUE, "shell", ADMIN, 17).value
    /\ ~validate_access(rules, CHOOSE ctx \in CheckContexts : TRUE, "shell", ADMIN, 20).value
    /\ validate_access(rules, CHOOSE ctx \in CheckContexts : TRUE, "shell", ADMIN, 16).value

\* every condition key the rule carries is satisfied by the context and hour
DimensionsSatisfied(c, context, hour) ==
    /\ c.time_restriction # None
          => (Get(c.time_restriction)[1] <= hour /\ hour < Get(c.time_restriction)[2])
    /\ c.ip_whitelist # None => context.ip_address \in Get(c.ip_whitelist)
    /\ c.ip_blacklist # None => context.ip_address \notin Get(c.ip_blacklist)
    /\ c.required_roles # None => Range(context.roles) \cap Get(c.required_roles) # {}
    /\ c.context_conditions # None
          => \A kv \in Get(c.context_conditions) :
                kv[1] \in CtxDictKeys /\ CtxDictGet(context, kv[1]) = kv[2]

\* C15: a rule matches a context exactly when every condition key present on
\* the rule is satisfied; a rule without conditions matches every context
C15_MatchIsConjunction ==
    component = "manager" =>
    \A ctx \in CheckContexts, h \in WindowHours :
        _check_conditions(rules[1], ctx, h)
            <=> DimensionsSatisfied(rules[1].conditions, ctx, h)

\* the categories in the order they are looked for, and the keys of each
Precedence == <<"time_based", "ip_based", "role_based", "contextual">>
CategoryPresent(category, c) ==
    CASE category = "time_based" -> c.time_restriction # None
      [] category = "ip_based" -> c.ip_whitelist # None \/ c.ip_blacklist # None
      [] category = "role_based" -> c.required_roles # None
      [] OTHER -> c.context_conditions # None

\* C16: the derived type of a rule is the first category, in the order time,
\* ip, role, contextual, of which the rule carries a key, and CUSTOM when it
\* carries none of them
C16_FirstCategoryWins ==
    component = "manager" =>
    \A rule \in Range(rules) :
        LET present == {i \in DOMAIN Precedence :
                            CategoryPresent(Precedence[i], rule.conditions)}
        IN  /\ present = {} => _determine_rule_type(rule) = "custom"
            /\ present # {} =>
                  \E i \in present :
                     /\ \A j \in present : i <= j
                     /\ _determine_rule_type(rule) = Precedence[i]

\* a rule carrying keys of the ip, role and contextual categories has just
\* been classified as ip_based
C16_Witness ==
    /\ component = "manager"
    /\ rules[1].conditions.time_restriction = None
    /\ rules[1].conditions.ip_blacklist # None
    /\ rules[1].conditions.required_roles # None
    /\ rules[1].conditions.context_conditions # None
    /\ ret = [op |-> "_determine_rule_type", value |-> "ip_based"]

-----------------------------------------------------------------------------
(* Claims about log_event and its handlers *)

\* C17: a log_event whose severity is below log_level returns "none" and
\* leaves the log alone and the handlers uncalled; one whose severity is at
\* or above log_level appends exactly one entry and returns that entry's id
C17_LogsExactlyAtOrAboveLevel ==
    [][\A e \in EventTypes, ctx \in CallContexts, s \in Severities, c \in Categories :
          log_event(e, "m", ctx, s, c) =>
              IF s < log_level
              THEN /\ ret'.value = "none"
                   /\ audit_log' = audit_log
                   /\ notified' = <<>>
              ELSE /\ ret'.value = "id"
                   /\ \E entry \in Range(audit_log') :
                         /\ entry.event_type = e
                         /\ audit_log' = EnforceSizeLimit(Append(audit_log, entry),
                                                          max_entries)]_vars

\* C18: a log_event that logs calls every registered handler exactly once, in
\* registration order, with the new entry; a handler that raises stops
\* neither the later handlers nor the call, and the entry stays appended
C18_EveryHandlerOnceInOrder ==
    [][\A e \in EventTypes, ctx \in CallContexts, s \in Severities, c \in Categories :
          (log_event(e, "m", ctx, s, c) /\ s >= log_level /\ handlers # <<>>) =>
              /\ Len(notified') = Len(handlers)
              /\ \A i \in DOMAIN handlers :
                    /\ notified'[i].handler = handlers[i]
                    /\ notified'[i].event_type = e
              /\ ret'.value = "id"
              /\ (max_entries > 0 => Len(audit_log') > 0)]_vars

-----------------------------------------------------------------------------
(* Claims about reading and cleaning the audit log *)

\* what the filter asks of an entry, the end of the time range excluded
Satisfies(filter, entry) ==
    /\ filter.start_time # None => entry.timestamp >= Get(filter.start_time)
    /\ filter.end_time # None => entry.timestamp < Get(filter.end_time)
    /\ filter.severity_min <= entry.severity
    /\ entry.severity <= filter.severity_max
    /\ filter.categories # <<>> => entry.category \in Range(filter.categories)
    /\ filter.users # <<>> => entry.user_id \in Range(filter.users)

RECURSIVE OlderPrefix(_, _)
OlderPrefix(log, cutoff) ==
    IF log # <<>> /\ Head(log).timestamp < cutoff
    THEN 1 + OlderPrefix(Tail(log), cutoff)
    ELSE 0

Kept(entry) == <<entry.event_type, entry.severity, entry.category, entry.timestamp>>

-----------------------------------------------------------------------------
(* Claims about handlers that log *)

\* C24: with a registered handler that calls log_event while it is notified,
\* the outer log_event returns its entry id and the log ends with the
\* triggering entry followed by the entry the handler logged
C24_ReentrantHandlerKeepsBoth ==
    [][\A e \in EventTypes, ctx \in CallContexts, s \in Severities, c \in Categories :
          (/\ log_event(e, "m", ctx, s, c)
           /\ s >= log_level
           /\ handlers = <<"relogs">>
           /\ max_entries >= Len(audit_log) + 2) =>
              /\ ret'.value = "id"
              /\ Len(audit_log') = Len(audit_log) + 2
              /\ SubSeq(audit_log', 1, Len(audit_log)) = audit_log
              /\ audit_log'[Len(audit_log) + 1].event_type = e
              /\ audit_log'[Len(audit_log) + 2].event_type = HandlerEvent]_vars

-----------------------------------------------------------------------------
(* Claims about ids that are not in a table *)

\* the ids and arguments the calls are tried with
TriedRoleIds == 1 .. MaxRoles
TriedRuleIds == 1 .. (MaxRules + 1)

\* C25: a call given an id that is not in its table returns False and changes
\* nothing (update_rule, delete_rule, delete_role, update_role,
\* remove_permission), and get_role_permissions and get_role_hierarchy return
\* an empty result for it
C25_UnknownIdChangesNothing ==
    /\ \A id \in TriedRoleIds \ DOMAIN roles :
          /\ get_role_permissions(role_permissions, id) = EmptyDict
          /\ get_role_hierarchy(roles, role_permissions, id) = "empty"
    /\ [][/\ \A id \in TriedRoleIds \ DOMAIN roles' :
                /\ get_role_permissions(role_permissions', id) = EmptyDict
                /\ get_role_hierarchy(roles', role_permissions', id) = "empty"
          /\ \A id \in TriedRoleIds \ DOMAIN roles :
                \A u \in RenameChoices, r \in {"documents"} :
                      (delete_role(id) \/ update_role(id, u) \/ remove_permission(id, r))
                          => (ret'.value = "False" /\ UNCHANGED roleVars)
          /\ \A id \in TriedRuleIds \ {rules[i].rule_id : i \in DOMAIN rules} :
                \A u \in UpdateChoices :
                   (delete_rule(id) \/ update_rule(id, u))
                       => (ret'.value = "False" /\ UNCHANGED ruleVars)]_vars

-----------------------------------------------------------------------------
(* Claims about get_rules *)

\* how often a rule is in a list of rules
TimesIn(rule, list) == Cardinality({i \in DOMAIN list : list[i] = rule})

\* C26: get_rules(resource_type, rule_type) returns the stored rules with that
\* resource type and that derived condition type, each once and no other
\* rule, for every type; a filter that is not given asks nothing
C26_GetRulesExactlyMatching ==
    \A rf \in ResourceFilters, tf \in TypeFilters :
        LET found == get_rules_filtered(rules, rules_by_type, rf, tf)
        IN  /\ Range(found) \subseteq Range(rules)
            /\ \A x \in Range(rules) :
                  TimesIn(x, found)
                      = IF /\ rf # None => x.resource_type = Get(rf)
                           /\ tf # None => _determine_rule_type(x) = Get(tf)
                        THEN 1 ELSE 0

-----------------------------------------------------------------------------
(* Claims about the requested level *)

\* the decision of the object under test
Decision(context, resource_type, level, hour) ==
    IF component = "manager"
    THEN validate_access(rules, context, resource_type, level, hour).value
    ELSE _check_access_rules(access_rules, resource_type, level, context, hour)

\* C27: for a fixed rule table, context and hour, a request that is allowed at
\* a level is allowed at every higher level
C27_MonotoneInLevel ==
    \A ctx \in CheckContexts, r \in Resources, h \in CheckHours :
        \A l1, l2 \in PermissionLevel :
            (l1 <= l2 /\ Decision(ctx, r, l1, h)) => Decision(ctx, r, l2, h)

\* validate_access has just allowed a request on a table under which some
\* request is denied at NONE and allowed at READ
C27_Witness ==
    /\ component = "manager"
    /\ ret = [op |-> "validate_access", value |-> "True"]
    /\ \E ctx \in CheckContexts, r \in Resources :
          /\ ~Decision(ctx, r, NONE, 16)
          /\ Decision(ctx, r, READ, 16)
          /\ Decision(ctx, r, ADMIN, 16)

-----------------------------------------------------------------------------
(* Claims about the default roles *)

\* C28: the two roles made at construction stay in the role table whatever
\* calls are made, a rename followed by a delete included
C28_DefaultRolesRemain == {UserRoleId, AdminRoleId} \subseteq DOMAIN roles

-----------------------------------------------------------------------------
(* Claims about the validator a role table was applied to *)

\* C29: after apply_to_validator the validator answers for the name of every
\* role, every resource and every level above NONE what check_permission
\* answers for the role's id, grants inherited from parent roles included
C29_ValidatorAgreesWithRoles ==
    ret.op \in {"apply_to_validator", "check_user_permission", "check_permission"}
    /\ v_role_permissions # EmptyDict =>
        \A id \in DOMAIN roles, r \in QueryResources, l \in PermissionLevel \ {NONE} :
            Bool(check_user_permission(v_role_permissions, <<roles[id].name>>, r, l))
                = check_permission(roles, role_permissions, <<id>>, r, l)

-----------------------------------------------------------------------------
(* Claims about the planner *)

\* C30: the plan TaskPrioritizer.create_plan returns is the plan registered in
\* active_plans: its plan_id is a key of active_plans, and the plan registered
\* under it has the same steps, with the same priorities, as the returned one
C30_ReturnedPlanIsRegistered ==
    ret.op = "create_plan" =>
        \A p \in returned_plan :
            /\ p.plan_id \in DOMAIN active_plans
            /\ active_plans[p.plan_id].steps = p.steps

\* the minutes since midnight of an <<hour, minute>> pair
MinutesOf(t) == t[1] * 60 + t[2]
\* the plan is one the rule built: a new plan_id, every step at the priority
NewWithPriority(p, plan, priority) ==
    /\ p.plan_id # plan.plan_id
    /\ DOMAIN p.steps = DOMAIN plan.steps
    /\ \A k \in DOMAIN p.steps : p.steps[k].priority = priority

\* C23: a TimeBasedPriorityRule whose start is later than its end is active
\* when the time read is at or after the start or at or before the end, and
\* inactive otherwise; the window 22:00 to 06:00 is active at hour 23 and at
\* hour 2 and inactive at hour 12; an inactive rule returns the plan it was given
C23_OvernightWindow ==
    [][ret'.op = "apply" =>
       \A i \in DOMAIN optimizer_rules, plan \in InputPlans, h \in Hours, m \in Minutes :
          LET rule == optimizer_rules[i]
              now == MinutesOf(<<h, m>>)
              start == MinutesOf(rule.start_time)
              end == MinutesOf(rule.end_time)
          IN  (TimeBasedApply(i, plan, h, m) /\ start > end) =>
                /\ (now >= start \/ now <= end)
                      => \A p \in returned_plan' : NewWithPriority(p, plan, rule.priority)
                /\ ~(now >= start \/ now <= end) => returned_plan' = Some(plan)
                /\ (rule.start_time = <<22, 0>> /\ rule.end_time = <<6, 0>>) =>
                      /\ h \in {23, 2}
                            => \A p \in returned_plan' : NewWithPriority(p, plan, rule.priority)
                      /\ h = 12 => returned_plan' = Some(plan)]_vars

\* the only registered rule is the 22:00 to 06:00 one, and its apply has
\* returned a plan it built at its own priority
C23_Witness ==
    /\ Len(optimizer_rules) = 1
    /\ optimizer_rules[1].rule_type = "time_based"
    /\ optimizer_rules[1].start_time = <<22, 0>>
    /\ optimizer_rules[1].end_time = <<6, 0>>
    /\ ret.op = "apply"
    /\ \E p \in returned_plan, plan \in InputPlans :
          /\ plan.steps[1].priority # optimizer_rules[1].priority
          /\ NewWithPriority(p, plan, optimizer_rules[1].priority)
          /\ [k \in DOMAIN p.steps |-> p.steps[k].step_id]
                = [k \in DOMAIN plan.steps |-> plan.steps[k].step_id]

\* whether a rule activates on a plan whose steps have the priorities prios,
\* at the time now, as the contract of the chain describes the four classes
Activates(rule, plan, prios, now) ==
    CASE rule.rule_type = "static" -> TRUE
      [] rule.rule_type = "time_based" ->
            IF MinutesOf(rule.start_time) <= MinutesOf(rule.end_time)
            THEN /\ MinutesOf(rule.start_time) <= MinutesOf(now)
                 /\ MinutesOf(now) <= MinutesOf(rule.end_time)
            ELSE \/ MinutesOf(now) >= MinutesOf(rule.start_time)
                 \/ MinutesOf(now) <= MinutesOf(rule.end_time)
      [] rule.rule_type = "contextual" ->
            \E md \in plan.metadata :
                \A kv \in rule.context_matcher :
                    kv[1] \in DOMAIN md /\ md[kv[1]] = kv[2]
      [] rule.rule_type = "dynamic" ->
            CASE rule.evaluator = "always" -> TRUE
              [] rule.evaluator = "never" -> FALSE
              [] rule.evaluator = "any_critical" ->
                    \E k \in DOMAIN prios : prios[k] = TaskPriority_CRITICAL

\* a Static rule targets its listed step ids, the other classes every step
Targets(rule, step) == rule.rule_type = "static" => step.step_id \in rule.step_ids

\* the priorities of the steps once the first j rules have had their turn:
\* the j-th rule, if active, gives its priority to the steps it targets
RECURSIVE PrioritiesAfter(_, _, _, _)
PrioritiesAfter(rs, plan, times, j) ==
    IF j = 0 THEN [k \in DOMAIN plan.steps |-> plan.steps[k].priority]
    ELSE LET before == PrioritiesAfter(rs, plan, times, j - 1)
         IN  [k \in DOMAIN plan.steps |->
                 IF Activates(rs[j], plan, before, times[j]) /\ Targets(rs[j], plan.steps[k])
                 THEN rs[j].priority
                 ELSE before[k]]

\* C22: apply_rules gives every registered rule one turn, in the order of the
\* rule collection, and only rewrites priorities: the returned plan has the
\* same steps in the same order with unchanged step_id, tool_name, parameters,
\* status, start_time and end_time, and each step has the priority of the
\* last active rule that targets it, or its original priority if there is none
C22_ChainOnlyRewritesPriorities ==
    [][ret'.op = "apply_rules" =>
       \A plan \in InputPlans, times \in TimesFor(optimizer_rules) :
          ApplyPriorityRules(plan, times) =>
             \A p \in returned_plan' :
                /\ DOMAIN p.steps = DOMAIN plan.steps
                /\ \A k \in DOMAIN p.steps :
                      /\ p.steps[k].step_id = plan.steps[k].step_id
                      /\ p.steps[k].tool_name = plan.steps[k].tool_name
                      /\ p.steps[k].parameters = plan.steps[k].parameters
                      /\ p.steps[k].status = plan.steps[k].status
                      /\ p.steps[k].start_time = plan.steps[k].start_time
                      /\ p.steps[k].end_time = plan.steps[k].end_time
                      /\ p.steps[k].priority =
                            PrioritiesAfter(optimizer_rules, plan, times,
                                            Len(optimizer_rules))[k]]_vars

\* a rule for every step followed by a Static rule for "s1" were applied:
\* "s1" has the priority of the second rule, which is not the one it had, and
\* the other step, completed and with its times, has that of the first
C22_Witness ==
    /\ ret.op = "apply_rules"
    /\ Len(optimizer_rules) = 2
    /\ optimizer_rules[1].rule_type = "contextual"
    /\ optimizer_rules[2].rule_type = "static"
    /\ optimizer_rules[2].step_ids = {"s1"}
    /\ \E p \in returned_plan :
          /\ p.steps[1] = CopyWithPriority(StepOne(TaskPriority_MEDIUM),
                                           optimizer_rules[2].priority)
          /\ p.steps[2] = CopyWithPriority(StepTwo, optimizer_rules[1].priority)
          /\ StepTwo.priority # optimizer_rules[1].priority
          /\ optimizer_rules[2].priority \notin {TaskPriority_MEDIUM, optimizer_rules[1].priority}


====
